---- MODULE Spec2Model ----
(***************************************************************************)
(* Deck manager: tier limits, the in-memory store (MemStorage) behind the  *)
(* Express routes, and the DeckManager of the FastAPI service.             *)
(***************************************************************************)
EXTENDS Integers, Sequences, FiniteSets, TLC

VARIABLES
    service,          \* which of the two services is running: "express" or "fastapi"
    users,            \* MemStorage.users: id -> [tier]
    decks,            \* MemStorage.decks: map key -> deck record
    stocks,           \* MemStorage.stocks: map key -> stock record
    currentDeckId,    \* MemStorage.currentDeckId
    currentStockId,   \* MemStorage.currentStockId
    resp,             \* the response of the last request: [status, error]
    reqs,             \* requests in flight (handlers suspended at an await)
    user_decks,       \* DeckManager: rows of table user_decks, deck_id -> row
    nextUuid,         \* DeckManager: the next fresh deck_id (uuid4)
    lastCall,         \* the last call of a function that changes no store, with its result
    cache,            \* MarketDataService.cache: key -> [data, timestamp]
    clock             \* Date.now(), in milliseconds

vars == <<service, users, decks, stocks, currentDeckId, currentStockId, resp, reqs,
          user_decks, nextUuid, lastCall, cache, clock>>

tsVars == <<users, decks, stocks, currentDeckId, currentStockId>>
pyVars == <<user_decks, nextUuid>>
mdVars == <<cache, clock>>

----------------------------------------------------------------------------
(* Bounds of the model *)

MaxDeckId == 3
MaxStockId == 4
MaxStocks == 2
MaxPyStocks == 1
MaxConcDecks == 1
MaxPyDecks == 2
MaxTierDecks == 1
MaxTierStocks == 1
MaxCount == 3
MaxDeckCount == 2
MaxRefreshStocks == 2
MaxFlightDecks == 1
MaxActivateDecks == 1
MaxAnalyticsStocks == 2
MaxRecommendations == 4
MaxTicks == 3
MaxMarketLimit == 2

(* Inputs *)

Symbols == {"AAPL", "MSFT", "TSLA", "GOOGL"}
TierInputs == {1, 2, 7}
TierValues == 0..8
StrategyIds == {"ma-cross", "rsi", "macd"}

----------------------------------------------------------------------------
(* Tier table *)

UNLIMITED == -1

TIER_LIMITS ==
    [t \in 1..7 |->
        CASE t = 1 -> [maxDecks |-> 1,  maxStocksPerDeck |-> 3,   maxStrategiesPerStock |-> 1]
          [] t = 2 -> [maxDecks |-> 3,  maxStocksPerDeck |-> 15,  maxStrategiesPerStock |-> 2]
          [] t = 3 -> [maxDecks |-> 5,  maxStocksPerDeck |-> 25,  maxStrategiesPerStock |-> 3]
          [] t = 4 -> [maxDecks |-> 10, maxStocksPerDeck |-> 50,  maxStrategiesPerStock |-> 5]
          [] t = 5 -> [maxDecks |-> 20, maxStocksPerDeck |-> 100, maxStrategiesPerStock |-> 10]
          [] t = 6 -> [maxDecks |-> 50, maxStocksPerDeck |-> 250, maxStrategiesPerStock |-> 25]
          [] t = 7 -> [maxDecks |-> UNLIMITED, maxStocksPerDeck |-> UNLIMITED,
                       maxStrategiesPerStock |-> UNLIMITED]]

tier_limits ==
    [t \in 1..7 |->
        CASE t = 1 -> [max_decks |-> 1,  max_stocks_per_deck |-> 3,
                       max_strategies_per_stock |-> 1,  search_results_limit |-> 10]
          [] t = 2 -> [max_decks |-> 3,  max_stocks_per_deck |-> 15,
                       max_strategies_per_stock |-> 2,  search_results_limit |-> 25]
          [] t = 3 -> [max_decks |-> 5,  max_stocks_per_deck |-> 25,
                       max_strategies_per_stock |-> 3,  search_results_limit |-> 50]
          [] t = 4 -> [max_decks |-> 10, max_stocks_per_deck |-> 50,
                       max_strategies_per_stock |-> 5,  search_results_limit |-> 100]
          [] t = 5 -> [max_decks |-> 20, max_stocks_per_deck |-> 100,
                       max_strategies_per_stock |-> 10, search_results_limit |-> 250]
          [] t = 6 -> [max_decks |-> 50, max_stocks_per_deck |-> 250,
                       max_strategies_per_stock |-> 25, search_results_limit |-> 500]
          [] t = 7 -> [max_decks |-> -1, max_stocks_per_deck |-> -1,
                       max_strategies_per_stock |-> -1, search_results_limit |-> -1]]

----------------------------------------------------------------------------
(* Helpers *)

\* JavaScript object spread { ...a, ...b }
Spread(a, b) ==
    [f \in (DOMAIN a) \cup (DOMAIN b) |-> IF f \in DOMAIN b THEN b[f] ELSE a[f]]

\* Map.delete(k)
MapDelete(m, k) == [x \in (DOMAIN m) \ {k} |-> m[x]]

\* Map.set(k, v)
MapSet(m, k, v) == [x \in (DOMAIN m) \cup {k} |-> IF x = k THEN v ELSE m[x]]

Response(status, error) == [status |-> status, error |-> error]

OK == Response(200, "none")

\* getCurrentUser: always the demo user, id 1
CurrentUserId == 1

----------------------------------------------------------------------------
(* MemStorage *)

\* getUserDecks(userId): the keys of the decks whose userId is userId
getUserDecks(userId) == {k \in DOMAIN decks : decks[k].userId = userId}

\* getDeckStocks(deckId): the stocks whose deckId is deckId, by map key
getDeckStocks(deckId) ==
    [k \in {x \in DOMAIN stocks : stocks[x].deckId = deckId} |-> stocks[k]]

\* insertDeckSchema.parse: name is required
insertDeckSchemaOk(obj) == "name" \in DOMAIN obj

\* insertStockSchema.parse: symbol is required; keys outside the schema are stripped
InsertStockKeys == {"deckId", "symbol", "status", "appliedStrategies"}

insertStockSchemaOk(obj) == "symbol" \in DOMAIN obj

insertStockSchemaParse(obj) == [f \in (DOMAIN obj) \cap InsertStockKeys |-> obj[f]]

\* createDeck: the new deck record
createDeck(insertDeck) ==
    [id |-> currentDeckId, userId |-> insertDeck.userId, name |-> insertDeck.name]

\* createStock: the new stock record (x || default)
createStock(insertStock) ==
    [id |-> currentStockId,
     deckId |-> insertStock.deckId,
     symbol |-> insertStock.symbol,
     status |-> IF "status" \in DOMAIN insertStock /\ insertStock.status # ""
                THEN insertStock.status ELSE "watching",
     appliedStrategies |-> IF "appliedStrategies" \in DOMAIN insertStock
                           THEN insertStock.appliedStrategies ELSE <<>>]

\* updateStock: { ...stock, ...updates } stored under the same map key
updateStock(id, updates) == MapSet(stocks, id, Spread(stocks[id], updates))

\* deleteDeck: deletes the key stock.id of every stock of the deck, then the deck
deleteDeckStocks(deckStocks) ==
    LET gone == {deckStocks[k].id : k \in DOMAIN deckStocks}
    IN  [k \in (DOMAIN stocks) \ gone |-> stocks[k]]

\* updateDeck: { ...deck, ...updates } stored under the same map key
updateDeck(id, updates) == MapSet(decks, id, Spread(decks[id], updates))

\* updateUser(1, {tier})
UpdateUser(tier) ==
    /\ service = "express"
    /\ users[CurrentUserId].tier # tier
    /\ users' = [users EXCEPT ![CurrentUserId] = Spread(@, [tier |-> tier])]
    /\ UNCHANGED <<service, decks, stocks, currentDeckId, currentStockId, resp, reqs>>
    /\ UNCHANGED pyVars
    /\ UNCHANGED lastCall
    /\ UNCHANGED mdVars

----------------------------------------------------------------------------
(* Express routes, one request at a time *)

Idle == \A r \in DOMAIN reqs : reqs[r].pc = "idle"

\* TIER_LIMITS[user.tier] is undefined: reading a field of it throws a TypeError
TierUndefined(tier) == tier \notin DOMAIN TIER_LIMITS

\* the catch block of a route, for an error that is not a ZodError
InternalServerError == Response(500, "Internal server error")

\* the limit checks with > where the code has >=
DeckLimitReachedOffByOne(tier, count) ==
    /\ TIER_LIMITS[tier].maxDecks # UNLIMITED
    /\ count > TIER_LIMITS[tier].maxDecks

StockLimitReachedOffByOne(tier, count) ==
    /\ TIER_LIMITS[tier].maxStocksPerDeck # UNLIMITED
    /\ count > TIER_LIMITS[tier].maxStocksPerDeck

\* the deck limit check with === where the code has >=
DeckLimitReachedExact(tier, count) ==
    /\ TIER_LIMITS[tier].maxDecks # UNLIMITED
    /\ count = TIER_LIMITS[tier].maxDecks

DeckLimitReached(tier, count) ==
    /\ TIER_LIMITS[tier].maxDecks # UNLIMITED
    /\ count >= TIER_LIMITS[tier].maxDecks

StockLimitReached(tier, count) ==
    /\ TIER_LIMITS[tier].maxStocksPerDeck # UNLIMITED
    /\ count >= TIER_LIMITS[tier].maxStocksPerDeck

\* deck missing or owned by someone else
DeckNotFound(deckId, userId) ==
    \/ deckId \notin DOMAIN decks
    \/ decks[deckId].userId # userId

\* existingStocks.find(stock => stock.symbol === req.body.symbol)
ExistingStock(existingStocks, body) ==
    /\ "symbol" \in DOMAIN body
    /\ \E k \in DOMAIN existingStocks : existingStocks[k].symbol = body.symbol

\* POST /api/decks taking the next deck id before the limit check
PostDecks_counting(body) ==
    /\ service = "express" /\ Idle
    /\ LET tier == users[CurrentUserId].tier
           existingDecks == getUserDecks(CurrentUserId)
       IN  IF TierUndefined(tier)
           THEN /\ resp' = InternalServerError
                /\ UNCHANGED <<decks, currentDeckId>>
           ELSE IF DeckLimitReached(tier, Cardinality(existingDecks))
           THEN /\ resp' = Response(400, "Deck limit reached for your tier")
                /\ currentDeckId' = currentDeckId + 1
                /\ UNCHANGED decks
           ELSE IF ~insertDeckSchemaOk(body)
           THEN /\ resp' = Response(400, "Invalid deck data")
                /\ UNCHANGED <<decks, currentDeckId>>
           ELSE /\ decks' = MapSet(decks, currentDeckId,
                                   createDeck(Spread(body, [userId |-> CurrentUserId])))
                /\ currentDeckId' = currentDeckId + 1
                /\ resp' = OK
    /\ UNCHANGED <<service, users, stocks, currentStockId, reqs>>
    /\ UNCHANGED pyVars
    /\ UNCHANGED lastCall
    /\ UNCHANGED mdVars

\* POST /api/decks
PostDecks(body) ==
    /\ service = "express" /\ Idle
    /\ LET tier == users[CurrentUserId].tier
           existingDecks == getUserDecks(CurrentUserId)
       IN  IF TierUndefined(tier)
           THEN /\ resp' = InternalServerError
                /\ UNCHANGED <<decks, currentDeckId>>
           ELSE IF DeckLimitReached(tier, Cardinality(existingDecks))
           THEN /\ resp' = Response(400, "Deck limit reached for your tier")
                /\ UNCHANGED <<decks, currentDeckId>>
           ELSE IF ~insertDeckSchemaOk(body)
           THEN /\ resp' = Response(400, "Invalid deck data")
                /\ UNCHANGED <<decks, currentDeckId>>
           ELSE /\ decks' = MapSet(decks, currentDeckId,
                                   createDeck(Spread(body, [userId |-> CurrentUserId])))
                /\ currentDeckId' = currentDeckId + 1
                /\ resp' = OK
    /\ UNCHANGED <<service, users, stocks, currentStockId, reqs>>
    /\ UNCHANGED pyVars
    /\ UNCHANGED lastCall
    /\ UNCHANGED mdVars

\* PUT /api/decks/:id
PutDecksId(deckId, body) ==
    /\ service = "express" /\ Idle
    /\ IF DeckNotFound(deckId, CurrentUserId)
       THEN /\ resp' = Response(404, "Deck not found")
            /\ UNCHANGED decks
       ELSE /\ decks' = updateDeck(deckId, body)
            /\ resp' = OK
    /\ UNCHANGED <<service, users, stocks, currentDeckId, currentStockId, reqs>>
    /\ UNCHANGED pyVars
    /\ UNCHANGED lastCall
    /\ UNCHANGED mdVars

\* DELETE /api/decks/:id
DeleteDecksId(deckId) ==
    /\ service = "express" /\ Idle
    /\ IF DeckNotFound(deckId, CurrentUserId)
       THEN /\ resp' = Response(404, "Deck not found")
            /\ UNCHANGED <<decks, stocks>>
       ELSE /\ stocks' = deleteDeckStocks(getDeckStocks(deckId))
            /\ decks' = MapDelete(decks, deckId)
            /\ resp' = OK
    /\ UNCHANGED <<service, users, currentDeckId, currentStockId, reqs>>
    /\ UNCHANGED pyVars
    /\ UNCHANGED lastCall
    /\ UNCHANGED mdVars

\* POST /api/decks/:id/stocks
PostDecksIdStocks(deckId, body) ==
    /\ service = "express" /\ Idle
    /\ IF DeckNotFound(deckId, CurrentUserId)
       THEN /\ resp' = Response(404, "Deck not found")
            /\ UNCHANGED <<stocks, currentStockId>>
       ELSE LET tier == users[CurrentUserId].tier
                existingStocks == getDeckStocks(deckId)
            IN  IF TierUndefined(tier)
                THEN /\ resp' = InternalServerError
                     /\ UNCHANGED <<stocks, currentStockId>>
                ELSE IF StockLimitReached(tier, Cardinality(DOMAIN existingStocks))
                THEN /\ resp' = Response(400, "Stock limit reached for your tier")
                     /\ UNCHANGED <<stocks, currentStockId>>
                ELSE IF ExistingStock(existingStocks, body)
                THEN /\ resp' = Response(400, "Stock already exists in this deck")
                     /\ UNCHANGED <<stocks, currentStockId>>
                ELSE IF ~insertStockSchemaOk(body)
                THEN /\ resp' = Response(400, "Invalid stock data")
                     /\ UNCHANGED <<stocks, currentStockId>>
                ELSE /\ stocks' = MapSet(stocks, currentStockId,
                            createStock(insertStockSchemaParse(
                                Spread(body, [deckId |-> deckId]))))
                     /\ currentStockId' = currentStockId + 1
                     /\ resp' = OK
    /\ UNCHANGED <<service, users, decks, currentDeckId, reqs>>
    /\ UNCHANGED pyVars
    /\ UNCHANGED lastCall
    /\ UNCHANGED mdVars

\* the stock is missing, or its deck is missing or owned by someone else
StockNotFound(stockId, userId) ==
    \/ stockId \notin DOMAIN stocks
    \/ DeckNotFound(stocks[stockId].deckId, userId)

\* PUT /api/stocks/:id
PutStocksId(stockId, body) ==
    /\ service = "express" /\ Idle
    /\ IF StockNotFound(stockId, CurrentUserId)
       THEN /\ resp' = Response(404, "Stock not found")
            /\ UNCHANGED stocks
       ELSE /\ stocks' = updateStock(stockId, body)
            /\ resp' = OK
    /\ UNCHANGED <<service, users, decks, currentDeckId, currentStockId, reqs>>
    /\ UNCHANGED pyVars
    /\ UNCHANGED lastCall
    /\ UNCHANGED mdVars

\* DELETE /api/stocks/:id
DeleteStocksId(stockId) ==
    /\ service = "express" /\ Idle
    /\ IF StockNotFound(stockId, CurrentUserId)
       THEN /\ resp' = Response(404, "Stock not found")
            /\ UNCHANGED stocks
       ELSE /\ stocks' = MapDelete(stocks, stockId)
            /\ resp' = OK
    /\ UNCHANGED <<service, users, decks, currentDeckId, currentStockId, reqs>>
    /\ UNCHANGED pyVars
    /\ UNCHANGED lastCall
    /\ UNCHANGED mdVars

----------------------------------------------------------------------------
(* Express routes as the event loop runs them: a handler runs from one await
   to the next, and other handlers may run while it is suspended.  A storage
   method reads or writes the maps when it is called; its caller resumes in a
   later step. *)

\* storage.getDeck(id): the deck record, or NoDeck for undefined
NoDeck == <<>>

getDeck(id) == IF id \in DOMAIN decks THEN decks[id] ELSE NoDeck

\* !deck || deck.userId !== user.id, on the values the handler holds
DeckMissing(deck, userId) == deck = NoDeck \/ deck.userId # userId

\* POST /api/decks/:id/stocks, up to await getCurrentUser()
AddStockStart(r, deckId, body) ==
    /\ service = "express"
    /\ reqs[r].pc = "idle"
    /\ reqs' = [reqs EXCEPT ![r] =
                    [pc |-> "addStock:getDeck", deckId |-> deckId, body |-> body,
                     user |-> Spread([id |-> CurrentUserId], users[CurrentUserId])]]
    /\ UNCHANGED <<service, resp>>
    /\ UNCHANGED tsVars
    /\ UNCHANGED pyVars
    /\ UNCHANGED lastCall
    /\ UNCHANGED mdVars

\* ... up to await storage.getDeck(deckId)
AddStockGetDeck(r) ==
    /\ reqs[r].pc = "addStock:getDeck"
    /\ reqs' = [reqs EXCEPT ![r] =
                    Spread(@, [pc |-> "addStock:getDeckStocks",
                               deck |-> getDeck(reqs[r].deckId)])]
    /\ UNCHANGED <<service, resp>>
    /\ UNCHANGED tsVars
    /\ UNCHANGED pyVars
    /\ UNCHANGED lastCall
    /\ UNCHANGED mdVars

\* ... the ownership check, up to await storage.getDeckStocks(deckId)
AddStockGetDeckStocks(r) ==
    /\ reqs[r].pc = "addStock:getDeckStocks"
    /\ IF DeckMissing(reqs[r].deck, reqs[r].user.id)
       THEN /\ resp' = Response(404, "Deck not found")
            /\ reqs' = [reqs EXCEPT ![r] = [pc |-> "idle"]]
       ELSE /\ reqs' = [reqs EXCEPT ![r] =
                    [pc |-> "addStock:createStock", deckId |-> @.deckId,
                     body |-> @.body, user |-> @.user,
                     existingStocks |-> getDeckStocks(reqs[r].deckId)]]
            /\ UNCHANGED resp
    /\ UNCHANGED service
    /\ UNCHANGED tsVars
    /\ UNCHANGED pyVars
    /\ UNCHANGED lastCall
    /\ UNCHANGED mdVars

\* ... the limit and duplicate checks on existingStocks, storage.createStock and
\* the response
AddStockCreateStock(r) ==
    /\ reqs[r].pc = "addStock:createStock"
    /\ LET rq == reqs[r]
       IN  IF TierUndefined(rq.user.tier)
           THEN /\ resp' = InternalServerError
                /\ UNCHANGED <<stocks, currentStockId>>
           ELSE IF StockLimitReached(rq.user.tier, Cardinality(DOMAIN rq.existingStocks))
           THEN /\ resp' = Response(400, "Stock limit reached for your tier")
                /\ UNCHANGED <<stocks, currentStockId>>
           ELSE IF ExistingStock(rq.existingStocks, rq.body)
           THEN /\ resp' = Response(400, "Stock already exists in this deck")
                /\ UNCHANGED <<stocks, currentStockId>>
           ELSE IF ~insertStockSchemaOk(rq.body)
           THEN /\ resp' = Response(400, "Invalid stock data")
                /\ UNCHANGED <<stocks, currentStockId>>
           ELSE /\ stocks' = MapSet(stocks, currentStockId,
                        createStock(insertStockSchemaParse(
                            Spread(rq.body, [deckId |-> rq.deckId]))))
                /\ currentStockId' = currentStockId + 1
                /\ resp' = OK
    /\ reqs' = [reqs EXCEPT ![r] = [pc |-> "idle"]]
    /\ UNCHANGED <<service, users, decks, currentDeckId>>
    /\ UNCHANGED pyVars
    /\ UNCHANGED lastCall
    /\ UNCHANGED mdVars

\* DELETE /api/decks/:id, up to await getCurrentUser()
DeleteDeckStart(r, deckId) ==
    /\ service = "express"
    /\ reqs[r].pc = "idle"
    /\ reqs' = [reqs EXCEPT ![r] =
                    [pc |-> "deleteDeck:getDeck", deckId |-> deckId,
                     user |-> Spread([id |-> CurrentUserId], users[CurrentUserId])]]
    /\ UNCHANGED <<service, resp>>
    /\ UNCHANGED tsVars
    /\ UNCHANGED pyVars
    /\ UNCHANGED lastCall
    /\ UNCHANGED mdVars

\* ... up to await storage.getDeck(deckId)
DeleteDeckGetDeck(r) ==
    /\ reqs[r].pc = "deleteDeck:getDeck"
    /\ reqs' = [reqs EXCEPT ![r] =
                    Spread(@, [pc |-> "deleteDeck:deleteDeck",
                               deck |-> getDeck(reqs[r].deckId)])]
    /\ UNCHANGED <<service, resp>>
    /\ UNCHANGED tsVars
    /\ UNCHANGED pyVars
    /\ UNCHANGED lastCall
    /\ UNCHANGED mdVars

\* ... the ownership check and storage.deleteDeck up to its
\* await this.getDeckStocks(id)
DeleteDeckGetDeckStocks(r) ==
    /\ reqs[r].pc = "deleteDeck:deleteDeck"
    /\ IF DeckMissing(reqs[r].deck, reqs[r].user.id)
       THEN /\ resp' = Response(404, "Deck not found")
            /\ reqs' = [reqs EXCEPT ![r] = [pc |-> "idle"]]
       ELSE /\ reqs' = [reqs EXCEPT ![r] =
                    [pc |-> "deleteDeck:delete", deckId |-> @.deckId,
                     deckStocks |-> getDeckStocks(reqs[r].deckId)]]
            /\ UNCHANGED resp
    /\ UNCHANGED service
    /\ UNCHANGED tsVars
    /\ UNCHANGED pyVars
    /\ UNCHANGED lastCall
    /\ UNCHANGED mdVars

\* ... the rest of storage.deleteDeck and the response
DeleteDeckDelete(r) ==
    /\ reqs[r].pc = "deleteDeck:delete"
    /\ stocks' = deleteDeckStocks(reqs[r].deckStocks)
    /\ decks' = MapDelete(decks, reqs[r].deckId)
    /\ resp' = OK
    /\ reqs' = [reqs EXCEPT ![r] = [pc |-> "idle"]]
    /\ UNCHANGED <<service, users, currentDeckId, currentStockId>>
    /\ UNCHANGED pyVars
    /\ UNCHANGED lastCall
    /\ UNCHANGED mdVars

----------------------------------------------------------------------------
(* Client library (tier helpers of the web client) *)

\* getTierLimits(tier): TIER_LIMITS[tier] || TIER_LIMITS[DataTier.FREEMIUM]
getTierLimits(tier) ==
    IF tier \in DOMAIN TIER_LIMITS THEN TIER_LIMITS[tier] ELSE TIER_LIMITS[1]

\* canCreateDeck(currentDeckCount, tier)
canCreateDeck(currentDeckCount, tier) ==
    LET limits == getTierLimits(tier)
    IN  limits.maxDecks = -1 \/ currentDeckCount < limits.maxDecks

\* canAddStock with <= where the code has <
canAddStock_inclusive(currentStockCount, tier) ==
    LET limits == getTierLimits(tier)
    IN  limits.maxStocksPerDeck = -1 \/ currentStockCount <= limits.maxStocksPerDeck

\* canAddStock(currentStockCount, tier)
canAddStock(currentStockCount, tier) ==
    LET limits == getTierLimits(tier)
    IN  limits.maxStocksPerDeck = -1 \/ currentStockCount < limits.maxStocksPerDeck

\* a call of getTierLimits
GetTierLimits(tier) ==
    /\ service = "express"
    /\ lastCall' = [fn |-> "getTierLimits", tier |-> tier, result |-> getTierLimits(tier)]
    /\ UNCHANGED <<service, resp, reqs>>
    /\ UNCHANGED tsVars
    /\ UNCHANGED pyVars
    /\ UNCHANGED mdVars

\* a call of canCreateDeck
CanCreateDeck(currentDeckCount, tier) ==
    /\ service = "express"
    /\ lastCall' = [fn |-> "canCreateDeck", tier |-> tier, count |-> currentDeckCount,
                    result |-> canCreateDeck(currentDeckCount, tier)]
    /\ UNCHANGED <<service, resp, reqs>>
    /\ UNCHANGED tsVars
    /\ UNCHANGED pyVars
    /\ UNCHANGED mdVars

\* a call of canAddStock
CanAddStock(currentStockCount, tier) ==
    /\ service = "express"
    /\ lastCall' = [fn |-> "canAddStock", tier |-> tier, count |-> currentStockCount,
                    result |-> canAddStock(currentStockCount, tier)]
    /\ UNCHANGED <<service, resp, reqs>>
    /\ UNCHANGED tsVars
    /\ UNCHANGED pyVars
    /\ UNCHANGED mdVars

\* String.prototype.trim on the names the form is given
Trim(s) == CASE s = " " -> "" [] s = " Tech " -> "Tech" [] OTHER -> s

\* handleSubmit of the create-deck form: a blank name is refused with a toast,
\* anything else is posted as it is
HandleSubmit(formData) ==
    IF Trim(formData.name) = ""
    THEN /\ service = "express" /\ Idle
         /\ lastCall' = [fn |-> "handleSubmit", result |-> "Please enter a deck name"]
         /\ UNCHANGED <<service, resp, reqs>>
         /\ UNCHANGED tsVars
         /\ UNCHANGED pyVars
         /\ UNCHANGED mdVars
    ELSE PostDecks(formData)

----------------------------------------------------------------------------
(* DeckManager (FastAPI service) *)

\* get_user_decks(user_id): the deck ids of the rows whose user_id is user_id
get_user_decks(user_id) == {d \in DOMAIN user_decks : user_decks[d].user_id = user_id}

\* next((s for s in deck.stocks if s.symbol == symbol), None): 0 stands for None
FindStock(deck_stocks, symbol) ==
    IF \E i \in 1..Len(deck_stocks) : deck_stocks[i].symbol = symbol
    THEN CHOOSE i \in 1..Len(deck_stocks) :
            /\ deck_stocks[i].symbol = symbol
            /\ \A j \in 1..(i - 1) : deck_stocks[j].symbol # symbol
    ELSE 0

\* max > 0 and count >= max
LimitReached(max, count) == max > 0 /\ count >= max

\* DeckStock(symbol, status=WATCHING, ...)
DeckStock(symbol) ==
    [symbol |-> symbol, status |-> "watching", applied_strategies |-> <<>>,
     performance_data |-> <<>>]

\* the performance_data computed from a quote
PerformanceData(stock, market_data) ==
    LET current_price == market_data.price
        base == [current_price |-> current_price]
    IN  IF "entry_price" \in DOMAIN stock.performance_data
           /\ stock.performance_data.entry_price > 0
        THEN Spread(base,
                [return_percent |->
                    ((current_price - stock.performance_data.entry_price) * 100)
                        \div stock.performance_data.entry_price,
                 return_absolute |-> current_price - stock.performance_data.entry_price])
        ELSE base

\* update_stock_performance that writes the snapshot back without looking for
\* the stock: a stock that is gone is stored again
update_stock_performance_upsert(db, deck_id, symbol, quote) ==
    IF quote.kind = "ok" /\ deck_id \in DOMAIN db
    THEN LET i == FindStock(db[deck_id].stocks, symbol)
         IN  IF i = 0
             THEN [db EXCEPT ![deck_id].stocks =
                        Append(@, [DeckStock(symbol) EXCEPT !.performance_data =
                                        PerformanceData(DeckStock(symbol), quote)])]
             ELSE [db EXCEPT ![deck_id].stocks[i].performance_data =
                        PerformanceData(db[deck_id].stocks[i], quote)]
    ELSE db

\* update_stock_performance with a failed quote request wiping the stored snapshot
update_stock_performance_reset(db, deck_id, symbol, quote) ==
    IF deck_id \in DOMAIN db /\ FindStock(db[deck_id].stocks, symbol) # 0
    THEN LET i == FindStock(db[deck_id].stocks, symbol)
         IN  [db EXCEPT ![deck_id].stocks[i].performance_data =
                    IF quote.kind = "ok" THEN PerformanceData(db[deck_id].stocks[i], quote)
                    ELSE <<>>]
    ELSE db

\* update_stock_performance: the table after the refresh, given the quote response
update_stock_performance(db, deck_id, symbol, quote) ==
    IF quote.kind = "ok" /\ deck_id \in DOMAIN db
    THEN LET i == FindStock(db[deck_id].stocks, symbol)
         IN  IF i = 0 THEN db
             ELSE [db EXCEPT ![deck_id].stocks[i].performance_data =
                        PerformanceData(db[deck_id].stocks[i], quote)]
    ELSE db

\* a call of DeckManager.update_stock_performance: every exception is caught and
\* logged inside it, so nothing is raised to the caller
UpdateStockPerformance(deck_id, symbol, quote) ==
    /\ service = "fastapi"
    /\ user_decks' = update_stock_performance(user_decks, deck_id, symbol, quote)
    /\ lastCall' = [fn |-> "update_stock_performance", deck_id |-> deck_id,
                    symbol |-> symbol, quote |-> quote.kind, raised |-> FALSE]
    /\ UNCHANGED <<service, resp, reqs, nextUuid>>
    /\ UNCHANGED tsVars
    /\ UNCHANGED mdVars

\* DataTier(tier) raises ValueError: the endpoint answers 500
DataTierInvalid(tier) == tier \notin DOMAIN tier_limits

\* POST /decks
create_deck(user_id, tier) ==
    /\ service = "fastapi"
    /\ LET existing_decks == get_user_decks(user_id)
       IN  IF DataTierInvalid(tier)
           THEN /\ resp' = Response(500, "Internal Server Error")
                /\ UNCHANGED <<user_decks, nextUuid>>
           ELSE IF LimitReached(tier_limits[tier].max_decks, Cardinality(existing_decks))
           THEN /\ resp' = Response(400, "Deck limit reached for your tier")
                /\ UNCHANGED <<user_decks, nextUuid>>
           ELSE /\ user_decks' = MapSet(user_decks, nextUuid,
                                        [user_id |-> user_id, stocks |-> <<>>])
                /\ nextUuid' = nextUuid + 1
                /\ resp' = OK
    /\ UNCHANGED <<service, reqs>>
    /\ UNCHANGED tsVars
    /\ UNCHANGED lastCall
    /\ UNCHANGED mdVars

\* add_stock_to_deck with the refresh outside any try: an exception of the quote
\* request reaches the endpoint, which answers 500 after the deck was saved
add_stock_to_deck_raising(deck_id, symbol, user_tier, quote) ==
    /\ service = "fastapi"
    /\ IF DataTierInvalid(user_tier)
       THEN /\ resp' = Response(500, "Internal Server Error")
            /\ UNCHANGED user_decks
       ELSE IF deck_id \notin DOMAIN user_decks
       THEN /\ resp' = Response(404, "Deck not found")
            /\ UNCHANGED user_decks
       ELSE LET deck == user_decks[deck_id]
                max_stocks == tier_limits[user_tier].max_stocks_per_deck
            IN  IF LimitReached(max_stocks, Len(deck.stocks))
                THEN /\ resp' = Response(400, "Stock limit reached for your tier")
                     /\ UNCHANGED user_decks
                ELSE IF FindStock(deck.stocks, symbol) # 0
                THEN /\ resp' = Response(400, "Stock already in deck")
                     /\ UNCHANGED user_decks
                ELSE LET saved == [user_decks EXCEPT ![deck_id].stocks =
                                        Append(@, DeckStock(symbol))]
                     IN  /\ user_decks' =
                                update_stock_performance(saved, deck_id, symbol, quote)
                         /\ resp' = IF quote.kind = "exception"
                                    THEN Response(500, "Internal Server Error")
                                    ELSE OK
    /\ UNCHANGED <<service, reqs, nextUuid>>
    /\ UNCHANGED tsVars
    /\ UNCHANGED lastCall
    /\ UNCHANGED mdVars

\* POST /decks/{deck_id}/stocks
add_stock_to_deck(deck_id, symbol, user_tier, quote) ==
    /\ service = "fastapi"
    /\ IF DataTierInvalid(user_tier)
       THEN /\ resp' = Response(500, "Internal Server Error")
            /\ UNCHANGED user_decks
       ELSE IF deck_id \notin DOMAIN user_decks
       THEN /\ resp' = Response(404, "Deck not found")
            /\ UNCHANGED user_decks
       ELSE LET deck == user_decks[deck_id]
                max_stocks == tier_limits[user_tier].max_stocks_per_deck
            IN  IF LimitReached(max_stocks, Len(deck.stocks))
                THEN /\ resp' = Response(400, "Stock limit reached for your tier")
                     /\ UNCHANGED user_decks
                ELSE IF FindStock(deck.stocks, symbol) # 0
                THEN /\ resp' = Response(400, "Stock already in deck")
                     /\ UNCHANGED user_decks
                ELSE LET saved == [user_decks EXCEPT ![deck_id].stocks =
                                        Append(@, DeckStock(symbol))]
                     IN  /\ user_decks' =
                                update_stock_performance(saved, deck_id, symbol, quote)
                         /\ resp' = OK
    /\ UNCHANGED <<service, reqs, nextUuid>>
    /\ UNCHANGED tsVars
    /\ UNCHANGED lastCall
    /\ UNCHANGED mdVars

\* POST /decks/{deck_id}/stocks/{symbol}/strategies
apply_strategy_to_stock(deck_id, symbol, strategy_id, user_tier) ==
    /\ service = "fastapi"
    /\ IF DataTierInvalid(user_tier)
       THEN /\ resp' = Response(500, "Internal Server Error")
            /\ UNCHANGED user_decks
       ELSE IF deck_id \notin DOMAIN user_decks
       THEN /\ resp' = Response(404, "Deck not found")
            /\ UNCHANGED user_decks
       ELSE LET deck == user_decks[deck_id]
                i == FindStock(deck.stocks, symbol)
                max_strategies == tier_limits[user_tier].max_strategies_per_stock
            IN  IF i = 0
                THEN /\ resp' = Response(404, "Stock not found in deck")
                     /\ UNCHANGED user_decks
                ELSE IF LimitReached(max_strategies, Len(deck.stocks[i].applied_strategies))
                THEN /\ resp' = Response(400, "Strategy limit reached for your tier")
                     /\ UNCHANGED user_decks
                ELSE IF \E j \in 1..Len(deck.stocks[i].applied_strategies) :
                            deck.stocks[i].applied_strategies[j] = strategy_id
                THEN /\ resp' = Response(400, "Strategy already applied to this stock")
                     /\ UNCHANGED user_decks
                ELSE /\ user_decks' =
                            [user_decks EXCEPT
                                ![deck_id].stocks[i].applied_strategies =
                                    Append(@, strategy_id),
                                ![deck_id].stocks[i].status = "strategy_applied"]
                     /\ resp' = OK
    /\ UNCHANGED <<service, reqs, nextUuid>>
    /\ UNCHANGED tsVars
    /\ UNCHANGED lastCall
    /\ UNCHANGED mdVars

\* activate_strategy_for_stock with the request outside any try: an exception of
\* the request is raised to the caller
activate_strategy_for_stock_unguarded(response) ==
    [raised |-> response = "exception", logged |-> response = "http_error"]

\* activate_strategy_for_stock, given what the strategy service does with the
\* request: a status other than 200 is logged, an exception is caught and logged
activate_strategy_for_stock(response) ==
    [raised |-> FALSE, logged |-> response # "ok"]

\* POST /decks/{deck_id}/stocks/{symbol}/strategies, with the request to the
\* strategy service that follows save_deck
apply_strategy_to_stock_activate(deck_id, symbol, strategy_id, user_tier, response) ==
    /\ service = "fastapi"
    /\ IF DataTierInvalid(user_tier)
       THEN /\ resp' = Response(500, "Internal Server Error")
            /\ UNCHANGED <<user_decks, lastCall>>
       ELSE IF deck_id \notin DOMAIN user_decks
       THEN /\ resp' = Response(404, "Deck not found")
            /\ UNCHANGED <<user_decks, lastCall>>
       ELSE LET deck == user_decks[deck_id]
                i == FindStock(deck.stocks, symbol)
                max_strategies == tier_limits[user_tier].max_strategies_per_stock
            IN  IF i = 0
                THEN /\ resp' = Response(404, "Stock not found in deck")
                     /\ UNCHANGED <<user_decks, lastCall>>
                ELSE IF LimitReached(max_strategies, Len(deck.stocks[i].applied_strategies))
                THEN /\ resp' = Response(400, "Strategy limit reached for your tier")
                     /\ UNCHANGED <<user_decks, lastCall>>
                ELSE IF \E j \in 1..Len(deck.stocks[i].applied_strategies) :
                            deck.stocks[i].applied_strategies[j] = strategy_id
                THEN /\ resp' = Response(400, "Strategy already applied to this stock")
                     /\ UNCHANGED <<user_decks, lastCall>>
                ELSE LET activation == activate_strategy_for_stock(response)
                     IN  /\ user_decks' =
                                [user_decks EXCEPT
                                    ![deck_id].stocks[i].applied_strategies =
                                        Append(@, strategy_id),
                                    ![deck_id].stocks[i].status = "strategy_applied"]
                         /\ lastCall' = [fn |-> "activate_strategy_for_stock",
                                         response |-> response,
                                         raised |-> activation.raised,
                                         logged |-> activation.logged]
                         /\ resp' = IF activation.raised
                                    THEN Response(500, "Internal Server Error")
                                    ELSE OK
    /\ UNCHANGED <<service, reqs, nextUuid>>
    /\ UNCHANGED tsVars
    /\ UNCHANGED mdVars

\* tier_limits[tier]['features']
tier_features ==
    [t \in 1..7 |->
        CASE t = 1 -> {"basic_tracking", "simple_notes"}
          [] t = 2 -> {"basic_tracking", "simple_notes", "price_targets", "basic_analytics"}
          [] t = 3 -> {"basic_tracking", "simple_notes", "price_targets", "basic_analytics",
                       "sector_analysis"}
          [] t = 4 -> {"all_basic", "advanced_analytics", "performance_tracking",
                       "custom_tags"}
          [] t = 5 -> {"all_basic", "advanced_analytics", "performance_tracking",
                       "custom_tags", "institutional_data", "dark_pool_signals"}
          [] t = 6 -> {"all_features", "api_access", "custom_integrations",
                       "advanced_automation"}
          [] t = 7 -> {"all_features", "white_label", "priority_support",
                       "custom_development"}]

\* the keys of a filtered_result of search_stocks for a tier
SearchFields(user_tier) ==
    LET available_features == tier_features[user_tier]
    IN  {"symbol", "name", "price", "change", "change_percent"}
            \cup (IF "basic_analytics" \in available_features
                  THEN {"volume", "market_cap", "pe_ratio"} ELSE {})
            \cup (IF "sector_analysis" \in available_features
                  THEN {"sector", "industry"} ELSE {})
            \cup (IF "advanced_analytics" \in available_features
                  THEN {"beta", "rsi", "moving_averages"} ELSE {})
            \cup (IF "institutional_data" \in available_features
                  THEN {"institutional_ownership", "insider_trading"} ELSE {})

\* the limit parameter of the search request: max_results if max_results > 0 else 100
SearchLimit(user_tier) ==
    LET max_results == tier_limits[user_tier].search_results_limit
    IN  IF max_results > 0 THEN max_results ELSE 100

Min(a, b) == IF a <= b THEN a ELSE b

\* GET /search: the search service answers with at most limit of the available
\* matches, or fails
search_stocks(tier, available, ok) ==
    /\ service = "fastapi"
    /\ IF DataTierInvalid(tier)
       THEN /\ resp' = Response(500, "Internal Server Error")
            /\ UNCHANGED lastCall
       ELSE /\ lastCall' = [fn |-> "search_stocks", tier |-> tier,
                            limit |-> SearchLimit(tier),
                            result |-> IF ok THEN Min(available, SearchLimit(tier))
                                       ELSE 0,
                            fields |-> SearchFields(tier)]
            /\ resp' = OK
    /\ UNCHANGED <<service, reqs>>
    /\ UNCHANGED tsVars
    /\ UNCHANGED pyVars
    /\ UNCHANGED mdVars

\* the values of enum StockStatus
StockStatus == {"active", "watching", "strategy_applied", "archived"}

\* PUT /decks/{deck_id}/stocks/{symbol}
update_stock_in_deck(deck_id, symbol, update_data) ==
    /\ service = "fastapi"
    /\ IF deck_id \notin DOMAIN user_decks
       THEN /\ resp' = Response(404, "Deck not found")
            /\ UNCHANGED user_decks
       ELSE LET deck == user_decks[deck_id]
                i == FindStock(deck.stocks, symbol)
            IN  IF i = 0
                THEN /\ resp' = Response(404, "Stock not found in deck")
                     /\ UNCHANGED user_decks
                ELSE IF "status" \in DOMAIN update_data
                        /\ update_data.status \notin StockStatus
                THEN /\ resp' = Response(500, "Internal Server Error")
                     /\ UNCHANGED user_decks
                ELSE /\ user_decks' =
                            [user_decks EXCEPT ![deck_id].stocks[i].status =
                                IF "status" \in DOMAIN update_data
                                THEN update_data.status ELSE @]
                     /\ resp' = OK
    /\ UNCHANGED <<service, reqs, nextUuid>>
    /\ UNCHANGED tsVars
    /\ UNCHANGED lastCall
    /\ UNCHANGED mdVars

\* deck.stocks = [s for s in deck.stocks if s.symbol != symbol]
RECURSIVE WithoutSymbol(_, _)
WithoutSymbol(deck_stocks, symbol) ==
    IF deck_stocks = <<>> THEN <<>>
    ELSE IF Head(deck_stocks).symbol = symbol
         THEN WithoutSymbol(Tail(deck_stocks), symbol)
         ELSE <<Head(deck_stocks)>> \o WithoutSymbol(Tail(deck_stocks), symbol)

\* DELETE /decks/{deck_id}/stocks/{symbol}
remove_stock_from_deck(deck_id, symbol) ==
    /\ service = "fastapi"
    /\ IF deck_id \notin DOMAIN user_decks
       THEN /\ resp' = Response(404, "Deck not found")
            /\ UNCHANGED user_decks
       ELSE /\ user_decks' = [user_decks EXCEPT ![deck_id].stocks =
                                    WithoutSymbol(@, symbol)]
            /\ resp' = OK
    /\ UNCHANGED <<service, reqs, nextUuid>>
    /\ UNCHANGED tsVars
    /\ UNCHANGED lastCall
    /\ UNCHANGED mdVars

----------------------------------------------------------------------------
(* DeckManager.add_stock_to_deck as the event loop runs it.  get_deck and
   save_deck are coroutines around blocking sqlite3 calls: they never suspend,
   so the only point where another handler can run is the quote request of
   update_stock_performance. *)

\* POST /decks/{deck_id}/stocks, up to the quote request of
\* update_stock_performance: the checks, save_deck, and session.get(...)
add_stock_to_deck_save(r, deck_id, symbol, user_tier) ==
    /\ service = "fastapi"
    /\ reqs[r].pc = "idle"
    /\ IF DataTierInvalid(user_tier)
       THEN /\ resp' = Response(500, "Internal Server Error")
            /\ UNCHANGED <<user_decks, reqs>>
       ELSE IF deck_id \notin DOMAIN user_decks
       THEN /\ resp' = Response(404, "Deck not found")
            /\ UNCHANGED <<user_decks, reqs>>
       ELSE LET deck == user_decks[deck_id]
                max_stocks == tier_limits[user_tier].max_stocks_per_deck
            IN  IF LimitReached(max_stocks, Len(deck.stocks))
                THEN /\ resp' = Response(400, "Stock limit reached for your tier")
                     /\ UNCHANGED <<user_decks, reqs>>
                ELSE IF FindStock(deck.stocks, symbol) # 0
                THEN /\ resp' = Response(400, "Stock already in deck")
                     /\ UNCHANGED <<user_decks, reqs>>
                ELSE /\ user_decks' = [user_decks EXCEPT ![deck_id].stocks =
                                            Append(@, DeckStock(symbol))]
                     /\ reqs' = [reqs EXCEPT ![r] =
                                    [pc |-> "add_stock_to_deck:quote",
                                     deck_id |-> deck_id, symbol |-> symbol]]
                     /\ UNCHANGED resp
    /\ UNCHANGED <<service, nextUuid>>
    /\ UNCHANGED tsVars
    /\ UNCHANGED lastCall
    /\ UNCHANGED mdVars

\* ... from the answer of the quote service to return stock: the rest of
\* update_stock_performance (get_deck, the lookup of the stock, save_deck), then
\* the response of the endpoint
add_stock_to_deck_refresh(r, quote) ==
    /\ reqs[r].pc = "add_stock_to_deck:quote"
    /\ user_decks' = update_stock_performance(user_decks, reqs[r].deck_id,
                                              reqs[r].symbol, quote)
    /\ lastCall' = [fn |-> "update_stock_performance", deck_id |-> reqs[r].deck_id,
                    symbol |-> reqs[r].symbol, quote |-> quote.kind, raised |-> FALSE,
                    found |-> /\ reqs[r].deck_id \in DOMAIN user_decks
                              /\ FindStock(user_decks[reqs[r].deck_id].stocks,
                                           reqs[r].symbol) # 0]
    /\ resp' = OK
    /\ reqs' = [reqs EXCEPT ![r] = [pc |-> "idle"]]
    /\ UNCHANGED <<service, nextUuid>>
    /\ UNCHANGED tsVars
    /\ UNCHANGED mdVars

----------------------------------------------------------------------------
(* DeckManager: tier features and the deck analytics *)

\* returns: the return_percent of the stocks that have one, in deck order
RECURSIVE Returns(_)
Returns(deck_stocks) ==
    IF deck_stocks = <<>> THEN <<>>
    ELSE IF "return_percent" \in DOMAIN Head(deck_stocks).performance_data
         THEN <<Head(deck_stocks).performance_data.return_percent>>
                  \o Returns(Tail(deck_stocks))
         ELSE Returns(Tail(deck_stocks))

\* sum(returns)
RECURSIVE SeqSum(_)
SeqSum(xs) == IF xs = <<>> THEN 0 ELSE Head(xs) + SeqSum(Tail(xs))

\* max(returns), min(returns) of a non-empty list
RECURSIVE SeqMax(_)
SeqMax(xs) ==
    IF Len(xs) = 1 THEN Head(xs)
    ELSE LET m == SeqMax(Tail(xs)) IN IF Head(xs) >= m THEN Head(xs) ELSE m

RECURSIVE SeqMin(_)
SeqMin(xs) ==
    IF Len(xs) = 1 THEN Head(xs)
    ELSE LET m == SeqMin(Tail(xs)) IN IF Head(xs) <= m THEN Head(xs) ELSE m

\* statistics.mean(returns): the sum over the number of values, as a fraction
Mean(xs) == [num |-> SeqSum(xs), den |-> Len(xs)]

\* the sum of Len(stock.applied_strategies) over the stocks
RECURSIVE ActiveStrategies(_)
ActiveStrategies(deck_stocks) ==
    IF deck_stocks = <<>> THEN 0
    ELSE Len(Head(deck_stocks).applied_strategies) + ActiveStrategies(Tail(deck_stocks))

\* get_deck_analytics: the analytics dictionary of an existing deck
get_deck_analytics(db, deck_id, user_tier) ==
    LET deck == db[deck_id]
        available_features == tier_features[user_tier]
        returns == Returns(deck.stocks)
        analytics == [deck_id |-> deck_id, total_stocks |-> Len(deck.stocks),
                      active_strategies |-> ActiveStrategies(deck.stocks)]
        basic == IF "basic_analytics" \in available_features /\ returns # <<>>
                 THEN [average_return |-> Mean(returns),
                       best_performer |-> SeqMax(returns),
                       worst_performer |-> SeqMin(returns),
                       total_return |-> SeqSum(returns)]
                 ELSE <<>>
        advanced == IF "advanced_analytics" \in available_features
                    THEN [volatility |->
                              IF Len(returns) > 1 THEN "stdev(returns)" ELSE "0.0",
                          sharpe_ratio |->
                              IF Len(returns) > 1 THEN "mean(returns)/stdev(returns)"
                              ELSE "0.0",
                          sector_allocation |-> "mock"]
                    ELSE <<>>
        tracking == IF "performance_tracking" \in available_features
                    THEN [historical_performance |-> "mock"]
                    ELSE <<>>
    IN  Spread(Spread(Spread(analytics, basic), advanced), tracking)

\* GET /decks/{deck_id}/analytics
GetDeckAnalytics(deck_id, tier) ==
    /\ service = "fastapi"
    /\ IF DataTierInvalid(tier)
       THEN /\ resp' = Response(500, "Internal Server Error")
            /\ UNCHANGED lastCall
       ELSE IF deck_id \notin DOMAIN user_decks
       THEN /\ resp' = Response(404, "Deck not found")
            /\ UNCHANGED lastCall
       ELSE /\ lastCall' = [fn |-> "get_deck_analytics", deck_id |-> deck_id,
                            tier |-> tier,
                            analytics |-> get_deck_analytics(user_decks, deck_id, tier)]
            /\ resp' = OK
    /\ UNCHANGED <<service, reqs>>
    /\ UNCHANGED tsVars
    /\ UNCHANGED pyVars
    /\ UNCHANGED mdVars

----------------------------------------------------------------------------
(* DeckManager: recommendations *)

\* xs[:n] of a Python list
Slice(xs, n) ==
    LET k == IF n >= 0 THEN Min(n, Len(xs))
             ELSE IF Len(xs) + n > 0 THEN Len(xs) + n ELSE 0
    IN  SubSeq(xs, 1, k)

\* x put into a list sorted by relevance_score descending, ahead of the entries
\* that do not have a higher score
InsertByScore(x, sorted) ==
    LET k == Cardinality({i \in 1..Len(sorted) :
                            sorted[i].relevance_score > x.relevance_score})
    IN  SubSeq(sorted, 1, k) \o <<x>> \o SubSeq(sorted, k + 1, Len(sorted))

\* recommendations.sort(key=lambda x: x.relevance_score, reverse=True): a stable
\* sort, entries with equal scores keep the order they had
RECURSIVE SortByRelevance(_)
SortByRelevance(xs) ==
    IF xs = <<>> THEN <<>>
    ELSE InsertByScore(Head(xs), SortByRelevance(Tail(xs)))

\* find_similar_stocks and get_trending_stocks: the first limit entries of what
\* the analysis has
find_similar_stocks(similar_stocks, limit) == Slice(similar_stocks, limit)

get_trending_stocks(trending_stocks, limit) == Slice(trending_stocks, limit)

\* get_deck_recommendations of an existing deck
get_deck_recommendations(db, deck_id, user_tier, requested, similars, trendings) ==
    LET deck == db[deck_id]
        max_results == tier_limits[user_tier].search_results_limit
        limit == IF max_results > 0 THEN Min(requested, max_results) ELSE requested
        similar == IF deck.stocks # <<>>
                   THEN find_similar_stocks(similars, limit) ELSE <<>>
        recommendations ==
            IF Len(similar) < limit
            THEN similar \o get_trending_stocks(trendings, limit - Len(similar))
            ELSE similar
    IN  Slice(SortByRelevance(recommendations), limit)

\* GET /decks/{deck_id}/recommendations
GetDeckRecommendations(deck_id, tier, limit, similar_stocks, trending_stocks) ==
    /\ service = "fastapi"
    /\ IF DataTierInvalid(tier)
       THEN /\ resp' = Response(500, "Internal Server Error")
            /\ UNCHANGED lastCall
       ELSE IF deck_id \notin DOMAIN user_decks
       THEN /\ resp' = Response(404, "Deck not found")
            /\ UNCHANGED lastCall
       ELSE /\ lastCall' = [fn |-> "get_deck_recommendations", deck_id |-> deck_id,
                            tier |-> tier, limit |-> limit,
                            similar_stocks |-> similar_stocks,
                            trending_stocks |-> trending_stocks,
                            result |-> get_deck_recommendations(user_decks, deck_id,
                                            tier, limit, similar_stocks,
                                            trending_stocks)]
            /\ resp' = OK
    /\ UNCHANGED <<service, reqs>>
    /\ UNCHANGED tsVars
    /\ UNCHANGED pyVars
    /\ UNCHANGED mdVars

----------------------------------------------------------------------------
(* MarketDataService *)

\* cacheTimeout, in milliseconds
cacheTimeout == 60000

\* half of cacheTimeout
TickMs == cacheTimeout \div 2

\* the keys `quote_${symbol}`, `search_${query}_${limit}` and `top_stocks_${limit}`
CacheKey(kind, arg, limit) == [kind |-> kind, arg |-> arg, limit |-> limit]

\* getCachedData with an entry still served at the age of cacheTimeout
getCachedData_inclusive(c, key, now) ==
    IF key \in DOMAIN c /\ now - c[key].timestamp <= cacheTimeout
    THEN [null |-> FALSE, data |-> c[key].data]
    ELSE [null |-> TRUE]

\* getCachedData(key): the data of an entry younger than cacheTimeout, or null
getCachedData(c, key, now) ==
    IF key \in DOMAIN c /\ now - c[key].timestamp < cacheTimeout
    THEN [null |-> FALSE, data |-> c[key].data]
    ELSE [null |-> TRUE]

\* setCachedData(key, data)
setCachedData(c, key, data, now) == MapSet(c, key, [data |-> data, timestamp |-> now])

\* symbol.toUpperCase()
toUpperCase(symbol) ==
    CASE symbol = "aapl" -> "AAPL" [] symbol = "msft" -> "MSFT" [] OTHER -> symbol

\* the fallback data of getStockQuote
FallbackQuote(symbol) ==
    [symbol |-> toUpperCase(symbol), price |-> 100, change |-> 0, changePercent |-> 0,
     sector |-> "Unknown"]

\* the MarketStock built from the three responses: up.price is
\* priceData.results?.last?.price, up.prevClose is prevCloseData.results?.[0]?.c
\* and up.sector is detailsData.results?.sic_description, 0 and "" when missing
MarketStock(symbol, up) ==
    LET currentPrice == up.price
        prevClose == IF up.prevClose # 0 THEN up.prevClose ELSE currentPrice
        change == currentPrice - prevClose
    IN  [symbol |-> toUpperCase(symbol), price |-> currentPrice, change |-> change,
         changePercent |-> IF prevClose > 0 THEN (change * 100) \div prevClose ELSE 0,
         sector |-> IF up.sector # "" THEN up.sector ELSE "Unknown"]

\* getStockQuote that lets the error of a failed request through to its caller
getStockQuote_throwing(c, symbol, up, now) ==
    LET cacheKey == CacheKey("quote", symbol, 0)
        cached == getCachedData(c, cacheKey, now)
    IN  IF ~cached.null
        THEN [cache |-> c, result |-> cached.data, requests |-> 0, raised |-> FALSE]
        ELSE IF up.fails # 0
        THEN [cache |-> c, result |-> FallbackQuote(symbol), requests |-> up.fails,
              raised |-> TRUE]
        ELSE [cache |-> setCachedData(c, cacheKey, MarketStock(symbol, up), now),
              result |-> MarketStock(symbol, up), requests |-> 3, raised |-> FALSE]

\* getStockQuote storing the fallback data under the quote's key
getStockQuote_cachingFallback(c, symbol, up, now) ==
    LET cacheKey == CacheKey("quote", symbol, 0)
        cached == getCachedData(c, cacheKey, now)
    IN  IF ~cached.null
        THEN [cache |-> c, result |-> cached.data, requests |-> 0, raised |-> FALSE]
        ELSE IF up.fails # 0
        THEN [cache |-> setCachedData(c, cacheKey, FallbackQuote(symbol), now),
              result |-> FallbackQuote(symbol), requests |-> up.fails,
              raised |-> FALSE]
        ELSE [cache |-> setCachedData(c, cacheKey, MarketStock(symbol, up), now),
              result |-> MarketStock(symbol, up), requests |-> 3, raised |-> FALSE]

\* getStockQuote(symbol): up.fails is the request that fails (1..3), 0 when all
\* three are answered; the result, the cache afterwards, the number of requests
\* made, and whether an error was raised to the caller
getStockQuote(c, symbol, up, now) ==
    LET cacheKey == CacheKey("quote", symbol, 0)
        cached == getCachedData(c, cacheKey, now)
    IN  IF ~cached.null
        THEN [cache |-> c, result |-> cached.data, requests |-> 0, raised |-> FALSE]
        ELSE IF up.fails # 0
        THEN [cache |-> c, result |-> FallbackQuote(symbol), requests |-> up.fails,
              raised |-> FALSE]
        ELSE [cache |-> setCachedData(c, cacheKey, MarketStock(symbol, up), now),
              result |-> MarketStock(symbol, up), requests |-> 3, raised |-> FALSE]

\* array.slice(0, limit), for limit >= 0
ArraySlice(xs, limit) == SubSeq(xs, 1, Min(limit, Len(xs)))

\* the quotes of the tickers, each fetched with getStockQuote: the cache
\* afterwards, the quotes, and whether one of the calls raised
RECURSIVE QuoteAll(_, _, _, _)
QuoteAll(c, tickers, ups, now) ==
    IF tickers = <<>> THEN [cache |-> c, quotes |-> <<>>]
    ELSE LET q == getStockQuote(c, Head(tickers), ups[Head(tickers)], now)
             rest == QuoteAll(q.cache, Tail(tickers), ups, now)
         IN  [cache |-> rest.cache,
              quotes |-> <<IF q.raised
                           THEN [symbol |-> Head(tickers), price |-> 0, change |-> 0,
                                 changePercent |-> 0, sector |-> "Unknown"]
                           ELSE q.result>> \o rest.quotes]

\* quotes.filter(q => q.price > 0)
RECURSIVE FilterPriced(_)
FilterPriced(quotes) ==
    IF quotes = <<>> THEN <<>>
    ELSE IF Head(quotes).price > 0
         THEN <<Head(quotes)>> \o FilterPriced(Tail(quotes))
         ELSE FilterPriced(Tail(quotes))

\* searchStocks(query, limit): sup is the answer to the search request, ups the
\* answers to the quote requests of each ticker
searchStocks(c, query, limit, sup, ups, now) ==
    LET cacheKey == CacheKey("search", query, limit)
        cached == getCachedData(c, cacheKey, now)
    IN  IF ~cached.null
        THEN [cache |-> c, result |-> cached.data, requests |-> 0, raised |-> FALSE]
        ELSE IF ~sup.ok
        THEN [cache |-> c, result |-> <<>>, requests |-> 1, raised |-> FALSE]
        ELSE LET all == QuoteAll(c, ArraySlice(sup.results, limit), ups, now)
                 results == FilterPriced(all.quotes)
             IN  [cache |-> setCachedData(all.cache, cacheKey, results, now),
                  result |-> results, requests |-> 1, raised |-> FALSE]

\* results.push(stock) for each of the top tickers: ticker.value || 0, ...
RECURSIVE TopQuotes(_)
TopQuotes(tickers) ==
    IF tickers = <<>> THEN <<>>
    ELSE <<[symbol |-> Head(tickers).ticker, price |-> Head(tickers).value,
            change |-> Head(tickers).change,
            changePercent |-> Head(tickers).change_percentage,
            sector |-> "Unknown"]>> \o TopQuotes(Tail(tickers))

\* getTopStocks(limit): up is the answer to the gainers request
getTopStocks(c, limit, up, now) ==
    LET cacheKey == CacheKey("top_stocks", "", limit)
        cached == getCachedData(c, cacheKey, now)
    IN  IF ~cached.null
        THEN [cache |-> c, result |-> cached.data, requests |-> 0, raised |-> FALSE]
        ELSE IF ~up.ok
        THEN [cache |-> c, result |-> <<>>, requests |-> 1, raised |-> FALSE]
        ELSE LET results == TopQuotes(ArraySlice(up.results, limit))
             IN  [cache |-> setCachedData(c, cacheKey, results, now),
                  result |-> results, requests |-> 1, raised |-> FALSE]

\* the age of the entry of a key, -1 when the key has none
Age(c, key, now) == IF key \in DOMAIN c THEN now - c[key].timestamp ELSE -1

\* a call of marketDataService.getStockQuote(symbol)
GetStockQuote(symbol, up) ==
    /\ service = "express"
    /\ LET call == getStockQuote(cache, symbol, up, clock)
       IN  /\ cache' = call.cache
           /\ lastCall' = [fn |-> "getStockQuote", symbol |-> symbol,
                           failed |-> up.fails # 0,
                           age |-> Age(cache, CacheKey("quote", symbol, 0), clock),
                           result |-> call.result, requests |-> call.requests,
                           raised |-> call.raised,
                           afterFailure |-> /\ lastCall.fn = "getStockQuote"
                                            /\ lastCall.symbol = symbol
                                            /\ lastCall.failed
                                            /\ lastCall.requests > 0]
    /\ UNCHANGED <<service, resp, reqs, clock>>
    /\ UNCHANGED tsVars
    /\ UNCHANGED pyVars

\* a call of marketDataService.searchStocks(query, limit)
SearchStocks(query, limit, sup, ups) ==
    /\ service = "express"
    /\ LET call == searchStocks(cache, query, limit, sup, ups, clock)
       IN  /\ cache' = call.cache
           /\ lastCall' = [fn |-> "searchStocks", query |-> query, limit |-> limit,
                           failed |-> ~sup.ok,
                           age |-> Age(cache, CacheKey("search", query, limit), clock),
                           result |-> call.result, requests |-> call.requests,
                           raised |-> call.raised]
    /\ UNCHANGED <<service, resp, reqs, clock>>
    /\ UNCHANGED tsVars
    /\ UNCHANGED pyVars

\* a call of marketDataService.getTopStocks(limit)
GetTopStocks(limit, up) ==
    /\ service = "express"
    /\ LET call == getTopStocks(cache, limit, up, clock)
       IN  /\ cache' = call.cache
           /\ lastCall' = [fn |-> "getTopStocks", limit |-> limit,
                           failed |-> ~up.ok,
                           age |-> Age(cache, CacheKey("top_stocks", "", limit), clock),
                           result |-> call.result, requests |-> call.requests,
                           raised |-> call.raised]
    /\ UNCHANGED <<service, resp, reqs, clock>>
    /\ UNCHANGED tsVars
    /\ UNCHANGED pyVars

\* time passes: Date.now() grows by half of cacheTimeout
Tick ==
    /\ clock' = clock + TickMs
    /\ UNCHANGED <<service, resp, reqs, lastCall, cache>>
    /\ UNCHANGED tsVars
    /\ UNCHANGED pyVars

----------------------------------------------------------------------------
(* Request inputs *)

NoBody == <<>>

DeckBodies == {[name |-> "Watchlist"], NoBody}

DeckIdInputs == 1..MaxDeckId

\* bodies of POST /api/decks with and without a name
DeckNameBodies == {[name |-> "Watchlist"], [name |-> ""], NoBody}

\* what the create-deck form holds when it is submitted
FormInputs == {[name |-> "Tech"], [name |-> " Tech "], [name |-> ""], [name |-> " "]}

\* bodies of PUT /api/decks/:id, which the route does not validate
DeckUpdateBodies == {[name |-> "Renamed"], [name |-> ""], [userId |-> 2], [id |-> 2]}

\* request bodies that carry a symbol and nothing else, and the body without one
SymbolBodies == {[symbol |-> s] : s \in Symbols} \cup {NoBody}

\* request bodies that carry fields the routes do not validate
StockBodies ==
    {[symbol |-> "AAPL"],
     [symbol |-> "MSFT", status |-> "active"],
     [symbol |-> "MSFT", appliedStrategies |-> <<"ma-cross", "rsi", "macd">>, id |-> 1]}

UpdateBodies ==
    {[symbol |-> "AAPL"], [deckId |-> 2], [id |-> 2], [status |-> "archived"],
     [appliedStrategies |-> <<"ma-cross", "rsi", "macd">>]}

\* bodies of PUT /api/stocks/:id that name another deck or another id
StockMoveBodies == {[deckId |-> 2], [id |-> 2]}

UserIds == {"u1", "u2"}

\* how many matches the search service has for a query
AvailableResults == {0, 50, 600}

PySymbols == {"AAPL", "MSFT"}

ConcSymbols == {"AAPL", "MSFT", "TSLA"}

PyDeckIds == 1..MaxPyDecks

QuoteInputs == {[kind |-> "ok", price |-> 100], [kind |-> "http_error"],
                [kind |-> "exception"]}

\* responses of the quote service to a refresh: two prices, and the failures
RefreshQuotes == {[kind |-> "ok", price |-> 100], [kind |-> "ok", price |-> 110],
                  [kind |-> "http_error"], [kind |-> "exception"]}

PyUpdates == {[status |-> "archived"], [status |-> "active"], [status |-> "sold"],
              [notes |-> "n"]}

\* the number of stocks in all the decks of the DeckManager
RECURSIVE SumLen(_, _)
SumLen(db, ids) ==
    IF ids = {} THEN 0
    ELSE LET d == CHOOSE x \in ids : TRUE
         IN  Len(db[d].stocks) + SumLen(db, ids \ {d})

PyStockCount == SumLen(user_decks, DOMAIN user_decks)

\* what the strategy service does with an activation request: status 200,
\* another status, or no answer (an exception of the client session)
ActivationResponses == {"ok", "http_error", "exception"}

ActivationTiers == {1, 7}

ActivationStrategies == {"rsi", "macd"}

\* the decks get_deck_analytics is applied to: stocks without a snapshot, with a
\* snapshot without return_percent, and with a return_percent
AnalyticsReturns == {-5, 0, 10}

AnalyticsSnapshots ==
    {<<>>, [current_price |-> 100]}
        \cup {[current_price |-> 100, return_percent |-> v] : v \in AnalyticsReturns}

AnalyticsSymbols == <<"AAPL", "MSFT", "TSLA">>

AnalyticsStocks ==
    UNION {{[i \in 1..n |-> [DeckStock(AnalyticsSymbols[i]) EXCEPT
                                !.performance_data = p[i]]] :
                p \in [1..n -> AnalyticsSnapshots]} : n \in 0..MaxAnalyticsStocks}

\* a candidate with its relevance_score, in hundredths
Candidate(symbol, relevance_score) ==
    [symbol |-> symbol, relevance_score |-> relevance_score]

\* what the similarity analysis returns: the list of the source, and lists with
\* equal scores in either order
SimilarStocks ==
    {<<Candidate("MSFT", 80), Candidate("GOOGL", 75)>>,
     <<Candidate("MSFT", 75), Candidate("GOOGL", 75)>>,
     <<Candidate("GOOGL", 75), Candidate("MSFT", 75)>>}

\* what the trending analysis returns
TrendingStocks ==
    {<<Candidate("TSLA", 70), Candidate("NVDA", 65)>>,
     <<Candidate("TSLA", 75), Candidate("NVDA", 65)>>,
     <<Candidate("NVDA", 70), Candidate("TSLA", 70)>>}

RecommendationLimits == 0..MaxRecommendations

RecommendationTiers == {1, 7, 9}

RecommendationDecks == {<<>>, <<DeckStock("AAPL")>>}

\* the symbols quotes are asked for
MarketSymbols == {"AAPL", "msft"}

\* the answers to the three requests of getStockQuote: all answered, with a
\* price and a previous close; all answered without a price; or the first, the
\* second or the third request fails
QuoteUpstreams ==
    {[fails |-> 0, price |-> 150, prevClose |-> 100, sector |-> "Technology"],
     [fails |-> 0, price |-> 0, prevClose |-> 0, sector |-> ""]}
        \cup {[fails |-> k, price |-> 0, prevClose |-> 0, sector |-> ""] : k \in 1..3}

\* the answers to a quote request inside a search
SearchQuoteUpstreams ==
    {[fails |-> 0, price |-> 150, prevClose |-> 100, sector |-> "Technology"],
     [fails |-> 0, price |-> 0, prevClose |-> 0, sector |-> ""],
     [fails |-> 1, price |-> 0, prevClose |-> 0, sector |-> ""]}

\* the answers to the search request: a failure, or the tickers found
SearchUpstreams ==
    {[ok |-> FALSE, results |-> <<>>], [ok |-> TRUE, results |-> <<>>],
     [ok |-> TRUE, results |-> <<"AAPL">>],
     [ok |-> TRUE, results |-> <<"AAPL", "msft">>]}

\* the answers to the gainers request
TopUpstreams ==
    {[ok |-> FALSE, results |-> <<>>], [ok |-> TRUE, results |-> <<>>],
     [ok |-> TRUE, results |-> <<[ticker |-> "NVDA", value |-> 450, change |-> 16,
                                  change_percentage |-> 4],
                                 [ticker |-> "TSLA", value |-> 800, change |-> 40,
                                  change_percentage |-> 5]>>]}

MarketLimits == 1..MaxMarketLimit

\* snapshots a stored stock can hold before a refresh: none, or one that records
\* an entry price
EntrySnapshots == {<<>>} \cup {[entry_price |-> e] : e \in {0, 50, 100}}

EntryStocks ==
    {<<[DeckStock("AAPL") EXCEPT !.performance_data = p1],
       [DeckStock("MSFT") EXCEPT !.performance_data = p2]>> :
        p1 \in EntrySnapshots, p2 \in EntrySnapshots}

\* the requests that run while a quote is in flight
FlightDeckIds == 1..(MaxFlightDecks + 1)

FlightUpdates == {[status |-> "archived"], [notes |-> "n"]}

FlightStrategies == {"rsi"}

----------------------------------------------------------------------------
(* Specifications *)

Slots == {1, 2}

IdleReq == [pc |-> "idle"]

NoCall == [fn |-> "none"]

InitStore ==
    /\ users = (CurrentUserId :> [tier |-> 2])
    /\ decks = <<>>
    /\ stocks = <<>>
    /\ currentDeckId = 1
    /\ currentStockId = 1
    /\ resp = OK
    /\ reqs = [r \in Slots |-> IdleReq]
    /\ user_decks = <<>>
    /\ nextUuid = 1
    /\ lastCall = NoCall
    /\ cache = <<>>
    /\ clock = 0

Init == service = "express" /\ InitStore

InitPy == service = "fastapi" /\ InitStore

InitAny == service \in {"express", "fastapi"} /\ InitStore

\* Every Express route, with request bodies the routes do not validate
Next ==
    \/ \E b \in DeckBodies : currentDeckId <= MaxDeckId /\ PostDecks(b)
    \/ \E d \in DeckIdInputs : DeleteDecksId(d)
    \/ \E d \in DeckIdInputs, b \in StockBodies :
          currentStockId <= MaxStocks /\ PostDecksIdStocks(d, b)
    \/ \E s \in 1..MaxStocks, b \in UpdateBodies : PutStocksId(s, b)
    \/ \E s \in 1..MaxStocks : DeleteStocksId(s)

Spec == Init /\ [][Next]_vars

\* Every endpoint of the FastAPI service
NextPy ==
    \/ \E u \in UserIds, t \in TierInputs : nextUuid <= MaxPyDecks /\ create_deck(u, t)
    \/ \E d \in PyDeckIds, sym \in PySymbols, t \in TierInputs, q \in QuoteInputs :
          PyStockCount < MaxPyStocks /\ add_stock_to_deck(d, sym, t, q)
    \/ \E d \in PyDeckIds, sym \in PySymbols, st \in StrategyIds, t \in TierInputs :
          apply_strategy_to_stock(d, sym, st, t)
    \/ \E d \in PyDeckIds, sym \in PySymbols, u \in PyUpdates :
          update_stock_in_deck(d, sym, u)
    \/ \E d \in PyDeckIds, sym \in PySymbols : remove_stock_from_deck(d, sym)

SpecPy == InitPy /\ [][NextPy]_vars

\* Refreshes of the stored performance snapshots, with quote requests that
\* succeed and that fail
NextRefresh ==
    \/ \E u \in UserIds : nextUuid <= MaxPyDecks /\ create_deck(u, 7)
    \/ \E d \in PyDeckIds, sym \in PySymbols, q \in QuoteInputs :
          PyStockCount < MaxRefreshStocks /\ add_stock_to_deck(d, sym, 7, q)
    \/ \E d \in PyDeckIds, sym \in PySymbols, q \in RefreshQuotes :
          UpdateStockPerformance(d, sym, q)
    \/ \E d \in PyDeckIds, sym \in PySymbols : remove_stock_from_deck(d, sym)

SpecRefresh == InitPy /\ [][NextRefresh]_vars

\* The FastAPI service with its add requests suspended at the quote request,
\* while other requests change the same deck
NextInFlight ==
    \/ \E u \in UserIds : nextUuid <= MaxFlightDecks /\ create_deck(u, 7)
    \/ \E r \in Slots, d \in FlightDeckIds, sym \in PySymbols :
          add_stock_to_deck_save(r, d, sym, 7)
    \/ \E r \in Slots, q \in QuoteInputs : add_stock_to_deck_refresh(r, q)
    \/ \E d \in FlightDeckIds, sym \in PySymbols : remove_stock_from_deck(d, sym)
    \/ \E d \in FlightDeckIds, sym \in PySymbols, u \in FlightUpdates :
          update_stock_in_deck(d, sym, u)
    \/ \E d \in FlightDeckIds, sym \in PySymbols, st \in FlightStrategies :
          apply_strategy_to_stock(d, sym, st, 7)

SpecInFlight == InitPy /\ [][NextInFlight]_vars

\* Strategies applied to the stocks of a deck, with a strategy service that
\* answers, refuses or fails
NextActivate ==
    \/ \E u \in UserIds : nextUuid <= MaxActivateDecks /\ create_deck(u, 7)
    \/ \E d \in PyDeckIds, sym \in PySymbols :
          add_stock_to_deck(d, sym, 7, [kind |-> "http_error"])
    \/ \E d \in PyDeckIds, sym \in PySymbols, st \in ActivationStrategies,
          t \in ActivationTiers, a \in ActivationResponses :
          apply_strategy_to_stock_activate(d, sym, st, t, a)
    \/ \E d \in PyDeckIds, sym \in PySymbols : remove_stock_from_deck(d, sym)

SpecActivate == InitPy /\ [][NextActivate]_vars

\* get_deck_analytics applied to a stored deck and search_stocks, for every tier
\* value
InitAnalytics ==
    /\ service = "fastapi"
    /\ users = (CurrentUserId :> [tier |-> 2])
    /\ decks = <<>>
    /\ stocks = <<>>
    /\ currentDeckId = 1
    /\ currentStockId = 1
    /\ resp = OK
    /\ reqs = [r \in Slots |-> IdleReq]
    /\ \E s \in AnalyticsStocks : user_decks = (1 :> [user_id |-> "u1", stocks |-> s])
    /\ nextUuid = 2
    /\ lastCall = NoCall
    /\ cache = <<>>
    /\ clock = 0

NextAnalytics ==
    \/ \E d \in PyDeckIds, t \in TierValues : GetDeckAnalytics(d, t)
    \/ \E t \in TierValues, n \in AvailableResults, ok \in BOOLEAN : search_stocks(t, n, ok)

SpecAnalytics == InitAnalytics /\ [][NextAnalytics]_vars

\* get_deck_recommendations applied to a stored deck
InitRank ==
    /\ service = "fastapi"
    /\ users = (CurrentUserId :> [tier |-> 2])
    /\ decks = <<>>
    /\ stocks = <<>>
    /\ currentDeckId = 1
    /\ currentStockId = 1
    /\ resp = OK
    /\ reqs = [r \in Slots |-> IdleReq]
    /\ \E s \in RecommendationDecks :
          user_decks = (1 :> [user_id |-> "u1", stocks |-> s])
    /\ nextUuid = 2
    /\ lastCall = NoCall
    /\ cache = <<>>
    /\ clock = 0

NextRank ==
    \E d \in PyDeckIds, t \in RecommendationTiers, n \in RecommendationLimits,
       s \in SimilarStocks, tr \in TrendingStocks :
        GetDeckRecommendations(d, t, n, s, tr)

SpecRank == InitRank /\ [][NextRank]_vars

\* Refreshes of stocks whose stored snapshot records an entry price
InitEntry ==
    /\ service = "fastapi"
    /\ users = (CurrentUserId :> [tier |-> 2])
    /\ decks = <<>>
    /\ stocks = <<>>
    /\ currentDeckId = 1
    /\ currentStockId = 1
    /\ resp = OK
    /\ reqs = [r \in Slots |-> IdleReq]
    /\ \E s \in EntryStocks : user_decks = (1 :> [user_id |-> "u1", stocks |-> s])
    /\ nextUuid = 2
    /\ lastCall = NoCall
    /\ cache = <<>>
    /\ clock = 0

NextEntry ==
    \E d \in PyDeckIds, sym \in PySymbols, q \in RefreshQuotes :
        UpdateStockPerformance(d, sym, q)

SpecEntry == InitEntry /\ [][NextEntry]_vars

\* Quotes asked for over time: the cache of MarketDataService as it fills and ages
NextCache ==
    \/ clock < MaxTicks * TickMs /\ Tick
    \/ \E s \in MarketSymbols, up \in QuoteUpstreams : GetStockQuote(s, up)

SpecCache == Init /\ [][NextCache]_vars

\* The three calls of MarketDataService with an upstream that answers or fails
NextMarket ==
    \/ \E s \in MarketSymbols, up \in QuoteUpstreams : GetStockQuote(s, up)
    \/ \E n \in MarketLimits, sup \in SearchUpstreams,
          ups \in [MarketSymbols -> SearchQuoteUpstreams] :
          SearchStocks("a", n, sup, ups)
    \/ \E n \in MarketLimits, up \in TopUpstreams : GetTopStocks(n, up)

SpecMarket == Init /\ [][NextMarket]_vars

\* The requests that create and delete, with every symbol, under every tier,
\* on either service
NextLimits ==
    \/ \E t \in TierInputs : UpdateUser(t)
    \/ \E b \in DeckBodies : currentDeckId <= MaxDeckId /\ PostDecks(b)
    \/ \E d \in DeckIdInputs : DeleteDecksId(d)
    \/ \E d \in DeckIdInputs, b \in SymbolBodies :
          currentStockId <= MaxStockId /\ PostDecksIdStocks(d, b)
    \/ \E s \in 1..MaxStockId : DeleteStocksId(s)
    \/ \E u \in UserIds, t \in TierInputs : nextUuid <= MaxPyDecks /\ create_deck(u, t)
    \/ \E d \in PyDeckIds, sym \in Symbols, t \in TierInputs, q \in QuoteInputs :
          PyStockCount < MaxStockId /\ add_stock_to_deck(d, sym, t, q)
    \/ \E d \in PyDeckIds, sym \in Symbols : remove_stock_from_deck(d, sym)

SpecLimits == InitAny /\ [][NextLimits]_vars

\* Express requests that overlap on one deck: two handlers in flight, the user
\* downgraded to Freemium at some point
NextConc ==
    \/ UpdateUser(1)
    \/ \E b \in DeckBodies : currentDeckId <= MaxConcDecks /\ PostDecks(b)
    \/ \E r \in Slots, d \in 1..MaxConcDecks, sym \in ConcSymbols :
          currentStockId <= MaxStockId /\ AddStockStart(r, d, [symbol |-> sym])
    \/ \E r \in Slots : AddStockGetDeck(r)
    \/ \E r \in Slots : AddStockGetDeckStocks(r)
    \/ \E r \in Slots : AddStockCreateStock(r)
    \/ \E d \in 1..MaxConcDecks : DeleteDeckStart(2, d)
    \/ \E r \in Slots : DeleteDeckGetDeck(r)
    \/ \E r \in Slots : DeleteDeckGetDeckStocks(r)
    \/ \E r \in Slots : DeleteDeckDelete(r)

SpecConc == Init /\ [][NextConc]_vars

\* Tier values inside and outside the enumeration, resolved by the client helpers
\* and by the requests that create
NextTiers ==
    \/ \E t \in TierValues : UpdateUser(t)
    \/ \E b \in DeckBodies : currentDeckId <= MaxTierDecks /\ PostDecks(b)
    \/ \E d \in 1..MaxTierDecks, b \in SymbolBodies :
          currentStockId <= MaxTierStocks /\ PostDecksIdStocks(d, b)
    \/ \E t \in TierValues : GetTierLimits(t)
    \/ \E n \in 0..MaxCount, t \in TierValues : CanCreateDeck(n, t)
    \/ \E n \in 0..MaxCount, t \in TierValues : CanAddStock(n, t)
    \/ \E u \in UserIds, t \in TierValues : nextUuid <= MaxTierDecks /\ create_deck(u, t)
    \/ \E d \in 1..MaxTierDecks, sym \in PySymbols, t \in TierValues, q \in QuoteInputs :
          PyStockCount < MaxTierStocks /\ add_stock_to_deck(d, sym, t, q)
    \/ \E t \in TierValues, n \in AvailableResults, ok \in BOOLEAN : search_stocks(t, n, ok)

SpecTiers == InitAny /\ [][NextTiers]_vars

\* the counts the client helpers are asked about: the small ones and those
\* around every finite limit of the table
LimitCounts ==
    (0..MaxCount) \cup
    UNION {{l - 1, l, l + 1} :
           l \in {TIER_LIMITS[t].maxDecks : t \in 1..6} \cup
                 {TIER_LIMITS[t].maxStocksPerDeck : t \in 1..6}}

\* the client helpers alone
NextClient ==
    \/ \E t \in TierValues : GetTierLimits(t)
    \/ \E n \in LimitCounts, t \in TierValues : CanCreateDeck(n, t)
    \/ \E n \in LimitCounts, t \in TierValues : CanAddStock(n, t)

SpecClient == Init /\ [][NextClient]_vars

\* The Express routes on decks and their stocks, with the create-deck form
NextDecks ==
    \/ \E b \in DeckNameBodies : currentDeckId <= MaxDeckCount /\ PostDecks(b)
    \/ \E f \in FormInputs : currentDeckId <= MaxDeckCount /\ HandleSubmit(f)
    \/ \E d \in 1..MaxDeckCount, b \in DeckUpdateBodies : PutDecksId(d, b)
    \/ \E d \in 1..MaxDeckCount : DeleteDecksId(d)
    \/ \E d \in 1..MaxDeckCount, sym \in PySymbols :
          currentStockId <= MaxStocks /\ PostDecksIdStocks(d, [symbol |-> sym])
    \/ \E s \in 1..MaxStocks, b \in StockMoveBodies : PutStocksId(s, b)
    \/ \E s \in 1..MaxStocks : DeleteStocksId(s)

SpecDecks == Init /\ [][NextDecks]_vars

----------------------------------------------------------------------------
(* Properties *)

ExpressUp == service = "express"

FastapiUp == service = "fastapi"

\* the number of stocks stored with deckId = deckId
StockCount(st, deckId) == Cardinality({k \in DOMAIN st : st[k].deckId = deckId})

\* the number of decks stored with userId = userId
DeckCount(dk, userId) == Cardinality({k \in DOMAIN dk : dk[k].userId = userId})

\* the number of rows of user_decks with user_id = user_id
PyDeckCount(db, user_id) == Cardinality({d \in DOMAIN db : db[d].user_id = user_id})

StockLimitError == Response(400, "Stock limit reached for your tier")

DeckLimitError == Response(400, "Deck limit reached for your tier")

\* C1 (Express): under a tier with a finite maxStocksPerDeck, a step that stores
\* a new stock never takes a deck of the user from at most the limit to above it,
\* and an add on a deck that already holds the limit is rejected with the
\* stock-limit error, the stocks unchanged; under the unlimited tier no step
\* answers with the stock-limit error.
C1_ExpressStep ==
    ExpressUp =>
        LET max == TIER_LIMITS[users[CurrentUserId].tier].maxStocksPerDeck
        IN  IF max = UNLIMITED
            THEN resp' = StockLimitError => resp = StockLimitError
            ELSE \A d \in getUserDecks(CurrentUserId) :
                    /\ (currentStockId' # currentStockId /\ StockCount(stocks, d) <= max)
                            => StockCount(stocks', d) <= max
                    /\ StockCount(stocks, d) >= max =>
                            \A b \in SymbolBodies :
                                PostDecksIdStocks(d, b) =>
                                    (resp' = StockLimitError /\ stocks' = stocks)

\* C1 (FastAPI): the same for add_stock_to_deck with the tier of the request.
C1_FastapiStep ==
    FastapiUp =>
        \A d \in DOMAIN user_decks :
            LET n == Len(user_decks[d].stocks)
            IN  /\ Len(user_decks'[d].stocks) > n =>
                    \A t \in TierInputs, q \in QuoteInputs :
                        (/\ tier_limits[t].max_stocks_per_deck # UNLIMITED
                         /\ n <= tier_limits[t].max_stocks_per_deck
                         /\ add_stock_to_deck(d, user_decks'[d].stocks[n + 1].symbol, t, q))
                        => n + 1 <= tier_limits[t].max_stocks_per_deck
                /\ \A t \in TierInputs :
                    IF tier_limits[t].max_stocks_per_deck = UNLIMITED
                    THEN (resp' = StockLimitError /\ resp # StockLimitError) =>
                            \A sym \in Symbols, q \in QuoteInputs :
                                ~add_stock_to_deck(d, sym, t, q)
                    ELSE n >= tier_limits[t].max_stocks_per_deck =>
                            \A sym \in Symbols, q \in QuoteInputs :
                                add_stock_to_deck(d, sym, t, q) =>
                                    (resp' = StockLimitError /\ user_decks' = user_decks)

\* C1: on either service, every addStock keeps a deck that is within the finite
\* stock limit of the tier within it and rejects the add that would exceed it with
\* the stock-limit error; the unlimited tier never rejects an add for the limit.
C1_StockLimit == [][C1_ExpressStep /\ C1_FastapiStep]_vars

\* C1 witness: a Freemium user's deck holds 3 stocks and the last add was
\* rejected with the stock-limit error.
C1_Witness ==
    /\ ExpressUp
    /\ users[CurrentUserId].tier = 1
    /\ \E d \in DOMAIN decks : StockCount(stocks, d) = 3
    /\ resp = StockLimitError

\* C2 (Express): under a tier with a finite maxDecks, a step that stores a new
\* deck never takes the user's deck count from at most the limit to above it, a
\* createDeck at or above the limit fails with the deck-limit error and creates
\* nothing, and a deleteDeck never raises the count.
C2_ExpressStep ==
    ExpressUp =>
        LET max == TIER_LIMITS[users[CurrentUserId].tier].maxDecks
            n == DeckCount(decks, CurrentUserId)
        IN  /\ (max # UNLIMITED /\ currentDeckId' # currentDeckId /\ n <= max)
                    => DeckCount(decks', CurrentUserId) <= max
            /\ (max # UNLIMITED /\ n >= max) =>
                    \A b \in DeckBodies :
                        PostDecks(b) => (resp' = DeckLimitError /\ decks' = decks
                                         /\ currentDeckId' = currentDeckId)
            /\ currentDeckId' = currentDeckId => DeckCount(decks', CurrentUserId) <= n

\* C2 (FastAPI): the same for create_deck with the tier of the request.
C2_FastapiStep ==
    FastapiUp =>
        \A u \in UserIds, t \in TierInputs :
            LET max == tier_limits[t].max_decks
                n == PyDeckCount(user_decks, u)
            IN  max # UNLIMITED =>
                    /\ (nextUuid' # nextUuid /\ n <= max /\ create_deck(u, t))
                            => PyDeckCount(user_decks', u) <= max
                    /\ (n >= max /\ create_deck(u, t)) =>
                            (resp' = DeckLimitError /\ user_decks' = user_decks)

\* C2: with the tier fixed and its maxDecks finite, createDeck and deleteDeck keep
\* the user's deck count at most maxDecks, and a createDeck at the limit fails with
\* the deck-limit error and creates no deck.
C2_DeckLimit == [][C2_ExpressStep /\ C2_FastapiStep]_vars

\* C2 witness: a Freemium user owns exactly one deck (the limit) and the last
\* createDeck was rejected with the deck-limit error.
C2_Witness ==
    /\ ExpressUp
    /\ users[CurrentUserId].tier = 1
    /\ DeckCount(decks, CurrentUserId) = 1
    /\ resp = DeckLimitError

\* C3: the limit check and the insertion of addStock are atomic: when a handler
\* stores its stock, the deck holds at most maxStocksPerDeck stocks of the tier
\* the handler read, whatever other handlers did while it was suspended.
C3_AtomicAddStock ==
    [][\A r \in Slots :
        (/\ reqs[r].pc = "addStock:createStock"
         /\ reqs'[r].pc = "idle"
         /\ stocks' # stocks
         /\ TIER_LIMITS[reqs[r].user.tier].maxStocksPerDeck # UNLIMITED)
        => StockCount(stocks', reqs[r].deckId)
                <= TIER_LIMITS[reqs[r].user.tier].maxStocksPerDeck]_vars

DuplicateStockError == Response(400, "Stock already exists in this deck")

PyDuplicateStockError == Response(400, "Stock already in deck")

\* C4 (Express): an add of a symbol the deck already holds is answered with the
\* duplicate error and leaves the stocks unchanged.
C4_ExpressStep ==
    ExpressUp =>
        \A d \in getUserDecks(CurrentUserId), b \in SymbolBodies :
            (ExistingStock(getDeckStocks(d), b) /\ PostDecksIdStocks(d, b)) =>
                (resp' = DuplicateStockError /\ stocks' = stocks)

\* C4 (FastAPI): the same for add_stock_to_deck.
C4_FastapiStep ==
    FastapiUp =>
        \A d \in DOMAIN user_decks, sym \in Symbols :
            FindStock(user_decks[d].stocks, sym) # 0 =>
                \A t \in TierInputs, q \in QuoteInputs :
                    add_stock_to_deck(d, sym, t, q) =>
                        (resp' = PyDuplicateStockError /\ user_decks' = user_decks)

\* C4: adding a symbol the deck already contains always fails with the duplicate
\* error, whatever the deck's stock count, and leaves the deck's stocks unchanged.
C4_DuplicateRejected == [][C4_ExpressStep /\ C4_FastapiStep]_vars

\* C5: no deck contains two stocks with the same symbol.
C5_UniqueSymbols ==
    \A k1, k2 \in DOMAIN stocks :
        (k1 # k2 /\ stocks[k1].deckId = stocks[k2].deckId)
            => stocks[k1].symbol # stocks[k2].symbol

\* C6: a deleteDeck(d) of a deck of the user removes the deck and every stock with
\* deckId = d, and leaves the other decks and the stocks of other decks unchanged.
C6_DeleteDeckCascades ==
    [][\A d \in getUserDecks(CurrentUserId) :
        DeleteDecksId(d) =>
            /\ d \notin DOMAIN decks'
            /\ StockCount(stocks', d) = 0
            /\ \A k \in DOMAIN stocks :
                    stocks[k].deckId # d => (k \in DOMAIN stocks' /\ stocks'[k] = stocks[k])
            /\ \A x \in (DOMAIN decks) \ {d} :
                    x \in DOMAIN decks' /\ decks'[x] = decks[x]]_vars

\* C7: every stored stock's deckId refers to a stored deck, in every state of
\* overlapping deleteDeck and addStock handlers.
C7_NoOrphans == \A k \in DOMAIN stocks : stocks[k].deckId \in DOMAIN decks

\* C8: a change of the user's tier leaves the decks and the stocks as they are,
\* and a createDeck of a user who owns n decks under a tier with a finite
\* maxDecks <= n fails with the deck-limit error and leaves the n decks.
C8_Downgrade ==
    [][ExpressUp =>
        /\ users' # users => (decks' = decks /\ stocks' = stocks)
        /\ LET max == TIER_LIMITS[users[CurrentUserId].tier].maxDecks
               n == DeckCount(decks, CurrentUserId)
           IN  (max # UNLIMITED /\ max <= n) =>
                    \A b \in DeckBodies :
                        PostDecks(b) =>
                            /\ resp' = DeckLimitError
                            /\ DeckCount(decks', CurrentUserId) = n
                            /\ decks' = decks]_vars

\* C8 witness: the user, now Freemium (maxDecks 1), still owns the two decks
\* created under a higher tier, and the last createDeck got the deck-limit error.
C8_Witness ==
    /\ ExpressUp
    /\ users[CurrentUserId].tier = 1
    /\ DeckCount(decks, CurrentUserId) = 2
    /\ resp = DeckLimitError

\* C9: every stock's list of applied strategies has at most
\* maxStrategiesPerStock entries of the user's tier.
C9_StrategyLimit ==
    \A k \in DOMAIN stocks :
        Len(stocks[k].appliedStrategies)
            <= TIER_LIMITS[users[CurrentUserId].tier].maxStrategiesPerStock

PyDuplicateStrategyError == Response(400, "Strategy already applied to this stock")

\* C10: applyStrategy with a strategy id the stock already has fails with the
\* duplicate error under every tier and leaves the stock as it was.
C10_DuplicateStrategy ==
    [][FastapiUp =>
        \A d \in DOMAIN user_decks, sym \in PySymbols :
            LET i == FindStock(user_decks[d].stocks, sym)
            IN  i # 0 =>
                    \A j \in 1..Len(user_decks[d].stocks[i].applied_strategies),
                       t \in TierInputs :
                        apply_strategy_to_stock(d, sym,
                            user_decks[d].stocks[i].applied_strategies[j], t)
                        => (resp' = PyDuplicateStrategyError
                            /\ user_decks' = user_decks)]_vars

\* what the resolution of a tier outside the enumeration has to answer
UnknownTier == [error |-> "UnknownTier"]

\* C11: resolving the limits of a tier value outside 1..7 fails with UnknownTier
\* and never yields another tier's profile, and no request creates a deck or a
\* stock for a tier outside 1..7.
C11_UnknownTier ==
    [][/\ (lastCall'.fn = "getTierLimits" /\ lastCall'.tier \notin 1..7)
            => lastCall'.result = UnknownTier
       /\ (ExpressUp /\ users[CurrentUserId].tier \notin 1..7)
            => (currentDeckId' = currentDeckId /\ currentStockId' = currentStockId)
       /\ FastapiUp =>
            \A u \in UserIds, t \in TierValues \ (1..7) :
                create_deck(u, t) => user_decks' = user_decks]_vars

\* x is at least y, the sentinel counting as greater than every finite value
AtLeast(x, y) == x = UNLIMITED \/ (y # UNLIMITED /\ x >= y)

\* C12: both tier tables are non-decreasing in every numeric field as the tier
\* increases, the sentinel -1 counting as greater than every finite value, and no
\* limit check treats the sentinel as a finite bound: the unlimited tier is never
\* refused a deck, a stock or a strategy for the limit, and a search under a tier
\* whose search_results_limit is the sentinel asks for at least as many results as
\* a search under any tier with a finite limit.
C12_Monotone ==
    [][/\ \A a, b \in 1..7 :
            a < b =>
                /\ AtLeast(TIER_LIMITS[b].maxDecks, TIER_LIMITS[a].maxDecks)
                /\ AtLeast(TIER_LIMITS[b].maxStocksPerDeck, TIER_LIMITS[a].maxStocksPerDeck)
                /\ AtLeast(TIER_LIMITS[b].maxStrategiesPerStock,
                           TIER_LIMITS[a].maxStrategiesPerStock)
                /\ AtLeast(tier_limits[b].max_decks, tier_limits[a].max_decks)
                /\ AtLeast(tier_limits[b].max_stocks_per_deck,
                           tier_limits[a].max_stocks_per_deck)
                /\ AtLeast(tier_limits[b].max_strategies_per_stock,
                           tier_limits[a].max_strategies_per_stock)
                /\ AtLeast(tier_limits[b].search_results_limit,
                           tier_limits[a].search_results_limit)
       /\ \A n \in 0..MaxCount :
            /\ ~DeckLimitReached(7, n)
            /\ ~StockLimitReached(7, n)
            /\ ~LimitReached(UNLIMITED, n)
            /\ canCreateDeck(n, 7)
            /\ canAddStock(n, 7)
       /\ (/\ lastCall'.fn = "search_stocks"
           /\ tier_limits[lastCall'.tier].search_results_limit = UNLIMITED)
            => \A a \in 1..7 :
                    tier_limits[a].search_results_limit # UNLIMITED
                        => lastCall'.limit >= tier_limits[a].search_results_limit]_vars

\* C13: a successful applyStrategy appends the strategy id at the end of the
\* stock's applied strategies, sets the status to strategy_applied when the list
\* was empty, and leaves the status as it was when the list was not empty.
C13_ApplyStrategyStatus ==
    [][FastapiUp =>
        \A d \in DOMAIN user_decks, sym \in PySymbols :
            LET i == FindStock(user_decks[d].stocks, sym)
            IN  i # 0 =>
                    LET old == user_decks[d].stocks[i]
                    IN  \A st \in StrategyIds, t \in TierInputs :
                            (/\ apply_strategy_to_stock(d, sym, st, t)
                             /\ resp' = OK)
                            => LET new == user_decks'[d].stocks[i]
                               IN  /\ new.applied_strategies =
                                        Append(old.applied_strategies, st)
                                   /\ new.status =
                                        IF old.applied_strategies = <<>>
                                        THEN "strategy_applied" ELSE old.status]_vars

\* C14: every stock stored by a successful addStock has the status watching and
\* no applied strategy, whatever the request carries.
C14_AddedStockWatching ==
    [][/\ \A k \in (DOMAIN stocks') \ (DOMAIN stocks) :
            /\ stocks'[k].status = "watching"
            /\ stocks'[k].appliedStrategies = <<>>
       /\ \A d \in DOMAIN user_decks :
            Len(user_decks'[d].stocks) > Len(user_decks[d].stocks) =>
                LET new == user_decks'[d].stocks[Len(user_decks'[d].stocks)]
                IN  /\ new.status = "watching"
                    /\ new.applied_strategies = <<>>]_vars

\* the status changes of the stated machine, each with the operation that may make
\* it; a change from or to active has to be made by an update of the stock
StatusTransition(old, new, d, sym) ==
    \/ new.status = old.status
    \/ /\ old.status = "watching" /\ new.status = "strategy_applied"
       /\ old.applied_strategies = <<>>
       /\ \E st \in StrategyIds, t \in TierInputs : apply_strategy_to_stock(d, sym, st, t)
    \/ /\ \/ old.status \in {"watching", "strategy_applied"} /\ new.status = "archived"
          \/ old.status = "archived" /\ new.status = "watching"
          \/ new.status = "active"
          \/ old.status = "active"
       /\ \E u \in PyUpdates : update_stock_in_deck(d, sym, u)

\* C15: a stock's status is always one of watching, active, strategy_applied,
\* archived, and every change of a stock's status is a transition of the stated
\* machine made by the operation the machine names for it.
C15_StatusMachine ==
    [][/\ \A k \in DOMAIN stocks' : stocks'[k].status \in StockStatus
       /\ \A d \in DOMAIN user_decks' :
            \A i \in 1..Len(user_decks'[d].stocks) :
                user_decks'[d].stocks[i].status \in StockStatus
       /\ \A d \in DOMAIN user_decks, sym \in PySymbols :
            (/\ FindStock(user_decks[d].stocks, sym) # 0
             /\ FindStock(user_decks'[d].stocks, sym) # 0)
            => StatusTransition(user_decks[d].stocks[FindStock(user_decks[d].stocks, sym)],
                                user_decks'[d].stocks[FindStock(user_decks'[d].stocks, sym)],
                                d, sym)]_vars

ValidationError == Response(400, "Invalid deck data")

\* C16: a createDeck with an empty name fails with the validation error and
\* creates no deck, and every deck in the store has a non-empty name.
C16_DeckNameNonEmpty ==
    [][/\ PostDecks([name |-> ""]) => (resp' = ValidationError /\ decks' = decks)
       /\ \A k \in DOMAIN decks' : decks'[k].name # ""]_vars

StockNotFoundError == Response(404, "Stock not found")

PyStockNotFoundError == Response(404, "Stock not found in deck")

\* C17 (Express): a removeStock of a stock that is not stored is answered with
\* the stock-not-found error and changes nothing.
C17_ExpressStep ==
    ExpressUp =>
        \A s \in 1..MaxStockId :
            (s \notin DOMAIN stocks /\ DeleteStocksId(s)) =>
                (resp' = StockNotFoundError /\ stocks' = stocks /\ decks' = decks)

\* C17 (FastAPI): the same for remove_stock_from_deck on a deck that does not
\* hold the symbol.
C17_FastapiStep ==
    FastapiUp =>
        \A d \in DOMAIN user_decks, sym \in PySymbols :
            (FindStock(user_decks[d].stocks, sym) = 0 /\ remove_stock_from_deck(d, sym)) =>
                (resp' = PyStockNotFoundError /\ user_decks' = user_decks)

\* C17: removeStock on a stock that is not present fails with StockNotFound and
\* changes nothing; the second removal of the same stock fails.
C17_RemoveAbsent == [][C17_ExpressStep /\ C17_FastapiStep]_vars

\* C18 (Express): a successful PUT /api/stocks/:id leaves the id, deckId, symbol
\* and applied strategies of the stock, every other stock and every deck unchanged.
C18_ExpressStep ==
    ExpressUp =>
        \A s \in DOMAIN stocks, b \in UpdateBodies :
            (PutStocksId(s, b) /\ resp' = OK) =>
                /\ stocks'[s].id = stocks[s].id
                /\ stocks'[s].deckId = stocks[s].deckId
                /\ stocks'[s].symbol = stocks[s].symbol
                /\ stocks'[s].appliedStrategies = stocks[s].appliedStrategies
                /\ \A k \in (DOMAIN stocks) \ {s} : stocks'[k] = stocks[k]
                /\ decks' = decks

\* C18 (FastAPI): the same for update_stock_in_deck.
C18_FastapiStep ==
    FastapiUp =>
        \A d \in DOMAIN user_decks, sym \in PySymbols, u \in PyUpdates :
            LET i == FindStock(user_decks[d].stocks, sym)
            IN  (i # 0 /\ update_stock_in_deck(d, sym, u)) =>
                    /\ Len(user_decks'[d].stocks) = Len(user_decks[d].stocks)
                    /\ user_decks'[d].stocks[i].symbol = sym
                    /\ user_decks'[d].stocks[i].applied_strategies =
                            user_decks[d].stocks[i].applied_strategies
                    /\ \A j \in 1..Len(user_decks[d].stocks) :
                            j # i => user_decks'[d].stocks[j] = user_decks[d].stocks[j]
                    /\ \A e \in (DOMAIN user_decks) \ {d} : user_decks'[e] = user_decks[e]

\* C18: updateStock changes nothing but the notes, prices, tags and status of the
\* addressed stock: its id, deckId, symbol and applied strategies, every other
\* stock and every deck are unchanged, whatever the request body.
C18_UpdateStockFrame == [][C18_ExpressStep /\ C18_FastapiStep]_vars

\* the decks stored with an owner other than userId
ForeignDecks(userId) == {k \in DOMAIN decks : decks[k].userId # userId}

NotFoundUnchanged == resp'.status = 404 /\ decks' = decks /\ stocks' = stocks

\* C19 (rejection): a mutating request of the acting user on a deck of another
\* owner, or on a stock of such a deck, is answered 404 and changes nothing.
C19_Rejected ==
    /\ \A d \in ForeignDecks(CurrentUserId) :
            /\ \A b \in DeckUpdateBodies : PutDecksId(d, b) => NotFoundUnchanged
            /\ DeleteDecksId(d) => NotFoundUnchanged
            /\ \A sym \in PySymbols :
                    PostDecksIdStocks(d, [symbol |-> sym]) => NotFoundUnchanged
    /\ \A s \in DOMAIN stocks :
            stocks[s].deckId \in ForeignDecks(CurrentUserId) =>
                /\ \A b \in StockMoveBodies : PutStocksId(s, b) => NotFoundUnchanged
                /\ DeleteStocksId(s) => NotFoundUnchanged

\* C19 (confinement): no request of the acting user changes a deck of another
\* owner or the stocks that deck holds.
C19_Confined ==
    \A d \in ForeignDecks(CurrentUserId) :
        /\ d \in DOMAIN decks' /\ decks'[d] = decks[d]
        /\ \A k \in DOMAIN stocks :
                stocks[k].deckId = d => (k \in DOMAIN stocks' /\ stocks'[k] = stocks[k])
        /\ \A k \in DOMAIN stocks' :
                stocks'[k].deckId = d => (k \in DOMAIN stocks /\ stocks[k].deckId = d)

\* C19: every mutating request that targets a deck, or a stock of a deck, whose
\* owner is not the acting user is answered not-found and changes nothing, and the
\* acting user's requests change only decks and stocks of decks the user owns.
C19_Ownership == [][ExpressUp => (C19_Rejected /\ C19_Confined)]_vars

\* C20: a refresh whose quote request fails (a response other than 200, or an
\* exception) leaves every deck, with the stock's stored snapshot, exactly as it
\* was, answers nothing and raises nothing to its caller.
C20_RefreshFailure ==
    [][(lastCall'.fn = "update_stock_performance" /\ lastCall'.quote # "ok") =>
        \A d \in PyDeckIds, sym \in PySymbols, q \in RefreshQuotes :
            (q.kind # "ok" /\ UpdateStockPerformance(d, sym, q)) =>
                /\ user_decks' = user_decks
                /\ resp' = resp
                /\ lastCall'.raised = FALSE]_vars

\* C20 witness: the last call was a refresh whose quote request failed, on a
\* stock that holds a snapshot from an earlier refresh.
C20_Witness ==
    /\ lastCall.fn = "update_stock_performance"
    /\ lastCall.quote # "ok"
    /\ lastCall.deck_id \in DOMAIN user_decks
    /\ LET i == FindStock(user_decks[lastCall.deck_id].stocks, lastCall.symbol)
       IN  /\ i # 0
           /\ user_decks[lastCall.deck_id].stocks[i].performance_data # <<>>

\* the refresh of request r gets its answer in this step
C21_WriteBack(r) ==
    /\ reqs[r].pc = "add_stock_to_deck:quote"
    /\ reqs'[r].pc = "idle"

\* the table with the snapshot of the stock at index i of deck d taken from db2
WithSnapshotOf(db, db2, d, i) ==
    [db EXCEPT ![d].stocks[i].performance_data = db2[d].stocks[i].performance_data]

\* C21: when the quote of a pending refresh of (d, s) arrives, a stock or deck
\* that was removed while the quote was in flight stays absent, and the
\* write-back changes nothing but the snapshot of stock s in the deck as it is
\* now, so no change made to the deck in the meantime is overwritten.
C21_NoResurrection ==
    [][\A r \in Slots :
        C21_WriteBack(r) =>
            LET d == reqs[r].deck_id
                s == reqs[r].symbol
                i == IF d \in DOMAIN user_decks
                     THEN FindStock(user_decks[d].stocks, s) ELSE 0
            IN  /\ i = 0 => user_decks' = user_decks
                /\ i # 0 => user_decks' = WithSnapshotOf(user_decks, user_decks', d, i)]_vars

\* C21 witness: a refresh got a quote (status 200) for a stock that was removed
\* from its deck while the quote was in flight, and the stock is absent.
C21_Witness ==
    /\ lastCall.fn = "update_stock_performance"
    /\ lastCall.quote = "ok"
    /\ lastCall.deck_id \in DOMAIN user_decks
    /\ ~lastCall.found
    /\ FindStock(user_decks[lastCall.deck_id].stocks, lastCall.symbol) = 0

C23_AddDoesNotWait ==
    \A r \in Slots : reqs[r].pc # "add_stock_to_deck:quote"

\* C24: when the strategy service refuses or fails the activation request of an
\* apply that passed its checks, the strategy id is in the stock's applied list,
\* the stock has status strategy_applied, and the apply answers with success.
C24_ActivationFailure ==
    [][(lastCall'.fn = "activate_strategy_for_stock" /\ lastCall'.response # "ok") =>
        \A d \in PyDeckIds, sym \in PySymbols, st \in ActivationStrategies,
           t \in ActivationTiers :
            (/\ apply_strategy_to_stock_activate(d, sym, st, t, lastCall'.response)
             /\ user_decks' # user_decks) =>
                LET i == FindStock(user_decks'[d].stocks, sym)
                IN  /\ i # 0
                    /\ \E j \in 1..Len(user_decks'[d].stocks[i].applied_strategies) :
                          user_decks'[d].stocks[i].applied_strategies[j] = st
                    /\ user_decks'[d].stocks[i].status = "strategy_applied"
                    /\ resp' = OK
                    /\ ~lastCall'.raised]_vars

\* C24 witness: the last activation request failed with an exception, and the
\* stock still holds an applied strategy with status strategy_applied.
C24_Witness ==
    /\ lastCall.fn = "activate_strategy_for_stock"
    /\ lastCall.response = "exception"
    /\ resp = OK
    /\ \E d \in DOMAIN user_decks :
          \E i \in 1..Len(user_decks[d].stocks) :
              /\ user_decks[d].stocks[i].applied_strategies # <<>>
              /\ user_decks[d].stocks[i].status = "strategy_applied"

\* the positions of the stocks of a deck that hold a return_percent
WithReturn(deck_stocks) ==
    {i \in 1..Len(deck_stocks) :
        "return_percent" \in DOMAIN deck_stocks[i].performance_data}

\* the sum of the return_percent of the stocks at the positions in S
RECURSIVE SumOver(_, _)
SumOver(deck_stocks, S) ==
    IF S = {} THEN 0
    ELSE LET i == CHOOSE x \in S : TRUE
         IN  deck_stocks[i].performance_data.return_percent
                 + SumOver(deck_stocks, S \ {i})

Lexical(symbol) ==
    CASE symbol = "AAPL" -> 1 [] symbol = "GOOGL" -> 2 [] symbol = "MSFT" -> 3
      [] symbol = "NVDA" -> 4 [] symbol = "TSLA" -> 5

\* a goes before b in the ranking
RankedBefore(a, b) ==
    \/ a.relevance_score > b.relevance_score
    \/ /\ a.relevance_score = b.relevance_score
       /\ Lexical(a.symbol) <= Lexical(b.symbol)

C28_AbsoluteExpiry ==
    [][lastCall'.fn = "getStockQuote" =>
        \A s \in MarketSymbols, up \in QuoteUpstreams :
            (GetStockQuote(s, up) /\ CacheKey("quote", s, 0) \in DOMAIN cache) =>
                LET entry == cache[CacheKey("quote", s, 0)]
                IN  IF clock - entry.timestamp < 60000
                    THEN /\ lastCall'.result = entry.data
                         /\ lastCall'.requests = 0
                         /\ cache' = cache
                    ELSE lastCall'.requests > 0]_vars

\* C28 witness: a lookup found an entry exactly 60000 ms old and asked upstream.
C28_Witness ==
    /\ lastCall.fn = "getStockQuote"
    /\ lastCall.age = 60000
    /\ lastCall.requests > 0

\* q is what getStockQuote returns for a failed fetch
IsFallbackQuote(q) ==
    q = [symbol |-> q.symbol, price |-> 100, change |-> 0, changePercent |-> 0,
         sector |-> "Unknown"]

\* C29: no entry of a searchStocks result, returned or cached, is the quote of a
\* failed fetch: every entry carries a price of a successful upstream response.
\* (No successful response of the specification gives price 100 with sector
\* 'Unknown', so such an entry can only be the fallback.)
C29_NoFailedQuotes ==
    /\ lastCall.fn = "searchStocks" =>
          \A i \in 1..Len(lastCall.result) : ~IsFallbackQuote(lastCall.result[i])
    /\ \A key \in DOMAIN cache :
          key.kind = "search" =>
              \A i \in 1..Len(cache[key].data) : ~IsFallbackQuote(cache[key].data[i])

\* C30: what a tier is given never shrinks as the tier grows: the fields
\* search_stocks puts in a result, and the entries get_deck_analytics returns for
\* a deck, include those of every lower tier.
C30_FeaturesMonotone ==
    /\ lastCall.fn = "search_stocks" =>
          \A a \in 1..7 : a < lastCall.tier => SearchFields(a) \subseteq lastCall.fields
    /\ lastCall.fn = "get_deck_analytics" =>
          \A a \in 1..7 :
              a < lastCall.tier =>
                  DOMAIN get_deck_analytics(user_decks, lastCall.deck_id, a)
                      \subseteq DOMAIN lastCall.analytics

C32_RejectedLeavesStore ==
    [][(/\ service = "express"
        /\ resp' # OK
        /\ \/ \E b \in DeckBodies : PostDecks(b)
           \/ \E d \in DeckIdInputs, b \in SymbolBodies : PostDecksIdStocks(d, b)) =>
            UNCHANGED <<users, decks, stocks, currentDeckId, currentStockId>>]_vars

\* a deck request was refused at the limit while decks and stocks are stored
C32_Witness ==
    /\ resp = Response(400, "Deck limit reached for your tier")
    /\ DOMAIN decks # {}
    /\ DOMAIN stocks # {}

\* an add was refused as a duplicate, and another for its body
C32_WitnessStock ==
    /\ resp \in {Response(400, "Stock already exists in this deck"),
                 Response(400, "Invalid stock data")}
    /\ DOMAIN stocks # {}

\* C33: for every tier in 1..7 and every count, canCreateDeck answers true
\* exactly when the deck-limit check of POST /api/decks lets the request pass,
\* canAddStock exactly when the stock-limit check of POST /api/decks/:id/stocks
\* does, and the checks of the Python service decide the same way.
C33_ClientAgrees ==
    /\ (lastCall.fn = "canCreateDeck" /\ lastCall.tier \in 1..7) =>
          /\ lastCall.result <=> ~DeckLimitReached(lastCall.tier, lastCall.count)
          /\ lastCall.result <=>
                ~LimitReached(tier_limits[lastCall.tier].max_decks, lastCall.count)
    /\ (lastCall.fn = "canAddStock" /\ lastCall.tier \in 1..7) =>
          /\ lastCall.result <=> ~StockLimitReached(lastCall.tier, lastCall.count)
          /\ lastCall.result <=>
                ~LimitReached(tier_limits[lastCall.tier].max_stocks_per_deck,
                              lastCall.count)

\* canAddStock refused the 251st stock of a deck on tier 6
C33_Witness ==
    /\ lastCall.fn = "canAddStock"
    /\ lastCall.tier = 6
    /\ lastCall.count = TIER_LIMITS[6].maxStocksPerDeck
    /\ ~lastCall.result

\* C34: PUT /api/decks/:id, whatever its body, leaves the id and the owner of
\* the deck it updates as they were, leaves every other deck and every stock
\* unchanged, and so leaves the number of decks of every user unchanged.
C34_UpdateDeckFrame ==
    [][\A d \in 1..MaxDeckCount, b \in DeckUpdateBodies :
          (PutDecksId(d, b) /\ d \in DOMAIN decks) =>
              /\ DOMAIN decks' = DOMAIN decks
              /\ decks'[d].id = decks[d].id
              /\ decks'[d].userId = decks[d].userId
              /\ \A o \in DOMAIN decks \ {d} : decks'[o] = decks[o]
              /\ stocks' = stocks
              /\ \A u \in {decks[o].userId : o \in DOMAIN decks} \cup
                          {decks'[o].userId : o \in DOMAIN decks'} :
                    Cardinality({o \in DOMAIN decks' : decks'[o].userId = u}) =
                        Cardinality({o \in DOMAIN decks : decks[o].userId = u})]_vars

\* C35: a getStockQuote whose upstream request fails returns the fallback and
\* stores nothing, so no fresh entry for the symbol exists afterwards; the next
\* getStockQuote of that symbol, at any age, asks the upstream again and
\* returns the real quote when the upstream answers; and every entry under a
\* quote key is a quote built from successful upstream responses.
C35_FallbackNotCached ==
    [][lastCall'.fn = "getStockQuote" =>
        \A s \in MarketSymbols, up \in QuoteUpstreams :
            GetStockQuote(s, up) =>
                LET key == CacheKey("quote", s, 0)
                IN  /\ (lastCall'.failed /\ lastCall'.requests > 0) =>
                          /\ lastCall'.result = FallbackQuote(s)
                          /\ cache' = cache
                          /\ getCachedData(cache', key, clock').null
                    /\ lastCall'.afterFailure =>
                          /\ lastCall'.requests > 0
                          /\ up.fails = 0 => lastCall'.result = MarketStock(s, up)
                    /\ lastCall'.requests = 0 =>
                          \E ok \in QuoteUpstreams :
                              ok.fails = 0 /\ lastCall'.result = MarketStock(s, ok)
                    /\ \A k \in DOMAIN cache' :
                          k.kind = "quote" =>
                              \E ok \in QuoteUpstreams :
                                  /\ ok.fails = 0
                                  /\ cache'[k].data = MarketStock(k.arg, ok)]_vars

\* a quote failed, and the next call for the symbol asked the upstream again
\* and returned the real quote
C35_Witness ==
    /\ lastCall.fn = "getStockQuote"
    /\ lastCall.afterFailure
    /\ lastCall.requests = 3
    /\ ~lastCall.failed
    /\ lastCall.result = [symbol |-> "AAPL", price |-> 150, change |-> 50, changePercent |-> 50, sector |-> "Technology"]

====
